---------------------------- MODULE Spec2Model ----------------------------
(***************************************************************************)
(* Dialogue orchestration engine of the sales agent: the ConversationState *)
(* record, slot extraction (planner.extract_datetime), the date-phrase     *)
(* resolver (date_parser.parse_sales_date), the planner                    *)
(* (planner.decide_next_action), the phase router and path nodes           *)
(* (graph.py, path_nodes.py) and the turn loop (graph.run_conversation_    *)
(* turn).                                                                  *)
(*                                                                         *)
(* An utterance is a set of words of Vocabulary (the text is the words     *)
(* joined by blanks).  The code's substring tests `kw in user_lower` are   *)
(* computed from the table Keywords, which lists for every word the        *)
(* keyword phrases of the code that occur in it as substrings.             *)
(* A datetime is [day, hour, minute]: day counts days after today.         *)
(* An optional value is <<>> (None / key absent) or <<v>>.                 *)
(***************************************************************************)
EXTENDS Integers, Sequences, FiniteSets, TLC

None == <<>>
Some(x) == <<x>>
IsSet(o) == o # <<>>
Val(o) == o[1]

---------------------------------------------------------------------------
(* Bounds of the model *)

MaxTurns == 3

---------------------------------------------------------------------------
(* Vocabulary and the substring table *)

TimeWords == {"2pm", "11pm", "15pm"}

WeekdayWords == {"monday", "tuesday", "wednesday", "thursday", "friday",
                 "saturday", "sunday"}

DateWords == {"today", "tomorrow", "next week"} \cup WeekdayWords

OtherWords == {"yes", "no", "sounds good", "not interested", "email",
               "text me", "who is this", "tell me more"}

Vocabulary == TimeWords \cup DateWords \cup OtherWords

\* Keywords[w]: the keyword phrases tested by the code that are substrings of w
Keywords ==
  [w \in Vocabulary |->
     CASE w = "yes"            -> {"yes"}
       [] w = "no"             -> {"no"}
       [] w = "sounds good"    -> {"sounds good"}
       [] w = "not interested" -> {"no", "not interested", "interested"}
       [] w = "email"          -> {"email"}
       [] w = "text me"        -> {"text", "text me"}
       [] w = "who is this"    -> {"who is this", "is this"}
       [] w = "tell me more"   -> {"tell me more", "tell me"}
       [] w = "today"          -> {"today"}
       [] w = "tomorrow"       -> {"tomorrow"}
       [] w \in WeekdayWords   -> {w}
       [] w = "next week"      -> {"next week"}
       [] OTHER                -> {}]

\* `kw in user_lower`
Contains(u, kw) == \E w \in u : kw \in Keywords[w]

\* any(phrase in user_lower for phrase in [...])
AnyIn(u, kws) == \E kw \in kws : Contains(u, kw)

\* the groups (hour, minute, am/pm) the time regex captures in a time word;
\* minute -1 stands for an absent minute group
PhraseTimes == TimeWords \cup {"4pm"}

TimeOf ==
  [w \in PhraseTimes |->
     CASE w = "2pm"  -> [hour |-> 2,  minute |-> -1, ampm |-> "pm"]
       [] w = "11pm" -> [hour |-> 11, minute |-> -1, ampm |-> "pm"]
       [] w = "15pm" -> [hour |-> 15, minute |-> -1, ampm |-> "pm"]
       [] w = "4pm"  -> [hour |-> 4,  minute |-> -1, ampm |-> "pm"]]

---------------------------------------------------------------------------
(* date_parser.py: the date-phrase resolver *)

WeekdayNames == <<"monday", "tuesday", "wednesday", "thursday", "friday",
                  "saturday", "sunday">>

IsWeekday(d) == \E i \in 1..7 : WeekdayNames[i] = d

\* the `days` table of _get_days_ahead: monday 0 .. sunday 6
WeekdayIndex(d) == (CHOOSE i \in 1..7 : WeekdayNames[i] = d) - 1

\* a _get_days_ahead that takes today for the weekday asked on that weekday
_get_days_ahead_same_day(day_name, now_wd) ==
  LET days_ahead == WeekdayIndex(day_name) - now_wd
  IN  IF days_ahead < 0 THEN days_ahead + 7 ELSE days_ahead

\* _get_days_ahead(day_name, now); now_wd is now.weekday()
_get_days_ahead(day_name, now_wd) ==
  LET days_ahead == WeekdayIndex(day_name) - now_wd
  IN  IF days_ahead <= 0 THEN days_ahead + 7 ELSE days_ahead

\* A phrase handed to the resolver: "<pre> <date> [at] <time>", lower-cased.
\* pre is "", "later", "next", "next week" or "this"; time is a word of
\* PhraseTimes or "".
Phrase(pre, date, at, time) ==
  [pre |-> pre, date |-> date, at |-> at, time |-> time]

EmptyPhrase == Phrase("", "", FALSE, "")

\* hour/minute/am-pm arithmetic shared by the _parse_* handlers: default 9:00
\* when no hour group matched, pm adds 12 except at 12, 12am is 0
HandlerClock(time) ==
  IF time = "" THEN [hour |-> 9, minute |-> 0]
  ELSE LET t == TimeOf[time]
           h == IF t.ampm = "pm" /\ t.hour # 12 THEN t.hour + 12
                ELSE IF t.ampm = "am" /\ t.hour = 12 THEN 0
                ELSE t.hour
       IN  [hour |-> h, minute |-> IF t.minute < 0 THEN 0 ELSE t.minute]

\* datetime.replace(hour=, minute=) raises ValueError outside these ranges
ValidClock(c) == c.hour \in 0..23 /\ c.minute \in 0..59

DT(day, c) == [day |-> day, hour |-> c.hour, minute |-> c.minute]

\* _parse_tomorrow: now + 1 day at the clock time; None when replace() raises
_parse_tomorrow(p) ==
  LET c == HandlerClock(p.time)
  IN  IF ValidClock(c) THEN Some(DT(1, c)) ELSE None

\* _parse_next_week_day: the next occurrence of the weekday plus 7 days
_parse_next_week_day(p, now_wd) ==
  LET c == HandlerClock(p.time)
  IN  IF ValidClock(c) THEN Some(DT(_get_days_ahead(p.date, now_wd) + 7, c))
      ELSE None

\* _parse_this_week_day: target_date = now + days_ahead is never <= now
_parse_this_week_day(p, now_wd) ==
  LET c == HandlerClock(p.time)
  IN  IF ValidClock(c) THEN Some(DT(_get_days_ahead(p.date, now_wd), c))
      ELSE None

\* _parse_next_day: the next occurrence of the weekday
_parse_next_day(p, now_wd) ==
  LET c == HandlerClock(p.time)
  IN  IF ValidClock(c) THEN Some(DT(_get_days_ahead(p.date, now_wd), c))
      ELSE None

\* _parse_day_of_week: target_date = now + days_ahead is never <= now
_parse_day_of_week(p, now_wd) ==
  LET c == HandlerClock(p.time)
  IN  IF ValidClock(c) THEN Some(DT(_get_days_ahead(p.date, now_wd), c))
      ELSE None

\* What the external dateparser.parse can answer for a phrase no pattern
\* resolved: nothing (it returns None or raises, and parse_sales_date
\* returns None either way), or a day (relative to today) at the phrase's
\* clock time.
DateparserDays == {0}

DateparserOutcomes ==
  {[kind |-> "none", day |-> 0]}
    \cup {[kind |-> "parsed", day |-> d] : d \in DateparserDays}

dateparser_parse(p, dp) ==
  IF dp.kind # "parsed" \/ ~ValidClock(HandlerClock(p.time)) THEN None
  ELSE Some(DT(dp.day, HandlerClock(p.time)))

\* parse_sales_date(text): the patterns in order, a handler that raises is
\* skipped (continue), then the dateparser fallback; None when all fail.
\* Every pattern with a clock time needs the hour digits, so a phrase
\* without a time word matches none of them; the weekday pattern is searched
\* anywhere in the text, so it also matches behind a prefix.  The period
\* patterns (morning, afternoon, evening) need words no phrase of this model
\* has.
parse_sales_date(p, now_wd, dp) ==
  LET tomorrow == IF p.date = "tomorrow" /\ p.time # ""
                  THEN _parse_tomorrow(p) ELSE None
      next_week_day == IF p.pre = "next week" /\ IsWeekday(p.date)
                          /\ p.time # ""
                       THEN _parse_next_week_day(p, now_wd) ELSE None
      next_day == IF p.pre = "next" /\ IsWeekday(p.date) /\ p.time # ""
                  THEN _parse_next_day(p, now_wd) ELSE None
      this_week_day == IF p.pre = "this" /\ IsWeekday(p.date) /\ p.time # ""
                       THEN _parse_this_week_day(p, now_wd) ELSE None
      day_of_week == IF IsWeekday(p.date) /\ p.time # ""
                     THEN _parse_day_of_week(p, now_wd) ELSE None
  IN  IF IsSet(tomorrow) THEN tomorrow
      ELSE IF IsSet(next_week_day) THEN next_week_day
      ELSE IF IsSet(next_day) THEN next_day
      ELSE IF IsSet(this_week_day) THEN this_week_day
      ELSE IF IsSet(day_of_week) THEN day_of_week
      ELSE dateparser_parse(p, dp)

---------------------------------------------------------------------------
(* state.py: ConversationState; slots is the string-keyed dict, an absent  *)
(* key is None (the flags read with .get(key, False) are FALSE when absent)*)

Phases == {"intro", "confirm_meeting", "propose_meeting", "reschedule",
           "propose_specific_time", "clarify_time", "provide_info",
           "provide_more_info", "answer_question", "ask_channel_pref",
           "graceful_exit", "ask_for_clarification"}

Intents == {"interested", "busy", "send_info", "not_interested", "question",
            "unclear"}

Tones == {"friendly", "rushed", "skeptical", "shut_down", "curious"}

EmptySlots ==
  [date_slot |-> None, time_slot |-> None, datetime |-> None,
   suggested_time |-> None, channel_pref |-> None, confirmation |-> None,
   questions_asked |-> None, info_provided |-> FALSE,
   more_info_provided |-> FALSE, info_sent |-> FALSE,
   suggest_meeting_after_answer |-> FALSE]

\* ConversationState(phase="intro", slots={}, done=False), the defaults of
\* the class; the lead is read-only and left out
NewConversationState ==
  [phase |-> "intro", intent |-> None, tone |-> None,
   tone_confidence |-> None, conversation_history |-> <<>>,
   slots |-> EmptySlots, done |-> FALSE,
   last_agent_reply |-> None, current_user_utterance |-> None]

\* Python truthiness of slots.get("confirmation")
Truthy(o) == IsSet(o) /\ Val(o) = TRUE

\* state.current_user_utterance or ""
UtteranceOf(st) ==
  IF IsSet(st.current_user_utterance) THEN Val(st.current_user_utterance)
  ELSE {}

---------------------------------------------------------------------------
(* planner.py: slot extraction *)

CoreDateKeywords == <<"today", "tomorrow", "monday", "tuesday", "wednesday",
                      "thursday", "friday", "saturday", "sunday">>

\* re.search(r'\b(\d{1,2}):?(\d{2})?\s*(pm|am)\b'): the time word of the
\* utterance, already in the canonical "<hour>[:<minute>]<am|pm>" form
exact_time_match(u) ==
  IF \E w \in u : w \in TimeWords
  THEN Some(CHOOSE w \in u : w \in TimeWords) ELSE None

\* the for-loop over core_date_keywords (first hit wins), then the
\* "next week" / "this week" patterns
DateKeyword(u) ==
  IF \E i \in 1..Len(CoreDateKeywords) : Contains(u, CoreDateKeywords[i])
  THEN LET i == CHOOSE j \in 1..Len(CoreDateKeywords) :
                  /\ Contains(u, CoreDateKeywords[j])
                  /\ \A k \in 1..(j - 1) : ~Contains(u, CoreDateKeywords[k])
       IN  Some(CoreDateKeywords[i])
  ELSE IF Contains(u, "next week") THEN Some("next week")
  ELSE IF Contains(u, "this week") THEN Some("this week")
  ELSE None

suggest_specific_time_from_slot(date_slot) ==
  IF date_slot = "today" THEN Phrase("later", "today", TRUE, "4pm")
  ELSE IF date_slot = "tomorrow" THEN Phrase("", "tomorrow", TRUE, "2pm")
  ELSE IF date_slot = "next week" THEN Phrase("next", "tuesday", TRUE, "2pm")
  ELSE IF IsWeekday(date_slot) THEN Phrase("", date_slot, TRUE, "2pm")
  ELSE Phrase("", "tomorrow", TRUE, "2pm")

\* an extraction that resolves the two slots only while datetime is unset
extract_datetime_keeps_first(u, slots, now_wd, dp) ==
  LET tm == exact_time_match(u)
      s1 == IF IsSet(tm) THEN [slots EXCEPT !.time_slot = tm] ELSE slots
      dk == DateKeyword(u)
      s2 == IF IsSet(dk) THEN [s1 EXCEPT !.date_slot = dk] ELSE s1
      both == IsSet(s2.date_slot) /\ IsSet(s2.time_slot)
      parsed == IF both /\ ~IsSet(s2.datetime)
                THEN parse_sales_date(
                       Phrase("", Val(s2.date_slot), FALSE, Val(s2.time_slot)),
                       now_wd, dp)
                ELSE None
  IN  IF IsSet(parsed) THEN [s2 EXCEPT !.datetime = parsed]
      ELSE IF IsSet(s2.date_slot) /\ ~IsSet(s2.time_slot)
              /\ ~IsSet(s2.datetime)
      THEN [s2 EXCEPT !.suggested_time =
              Some(suggest_specific_time_from_slot(Val(s2.date_slot)))]
      ELSE s2

\* an extraction that falls back to tomorrow 9:00 when the resolver fails
extract_datetime_defaults_on_failure(u, slots, now_wd, dp) ==
  LET tm == exact_time_match(u)
      s1 == IF IsSet(tm) THEN [slots EXCEPT !.time_slot = tm] ELSE slots
      dk == DateKeyword(u)
      s2 == IF IsSet(dk) THEN [s1 EXCEPT !.date_slot = dk] ELSE s1
      both == IsSet(s2.date_slot) /\ IsSet(s2.time_slot)
      parsed == IF both
                THEN parse_sales_date(
                       Phrase("", Val(s2.date_slot), FALSE, Val(s2.time_slot)),
                       now_wd, dp)
                ELSE None
  IN  IF IsSet(parsed) THEN [s2 EXCEPT !.datetime = parsed]
      ELSE IF both
      THEN [s2 EXCEPT !.datetime = Some([day |-> 1, hour |-> 9, minute |-> 0])]
      ELSE IF IsSet(s2.date_slot) /\ ~IsSet(s2.time_slot)
              /\ ~IsSet(s2.datetime)
      THEN [s2 EXCEPT !.suggested_time =
              Some(suggest_specific_time_from_slot(Val(s2.date_slot)))]
      ELSE s2

\* an extraction that drops the suggestion once the lead gives a time
extract_datetime_drops_suggestion(u, slots, now_wd, dp) ==
  LET tm == exact_time_match(u)
      s1 == IF IsSet(tm)
            THEN [slots EXCEPT !.time_slot = tm, !.suggested_time = None]
            ELSE slots
      dk == DateKeyword(u)
      s2 == IF IsSet(dk) THEN [s1 EXCEPT !.date_slot = dk] ELSE s1
      both == IsSet(s2.date_slot) /\ IsSet(s2.time_slot)
      parsed == IF both
                THEN parse_sales_date(
                       Phrase("", Val(s2.date_slot), FALSE, Val(s2.time_slot)),
                       now_wd, dp)
                ELSE None
  IN  IF IsSet(parsed) THEN [s2 EXCEPT !.datetime = parsed]
      ELSE IF IsSet(s2.date_slot) /\ ~IsSet(s2.time_slot)
              /\ ~IsSet(s2.datetime)
      THEN [s2 EXCEPT !.suggested_time =
              Some(suggest_specific_time_from_slot(Val(s2.date_slot)))]
      ELSE s2

\* an extraction that combines the two slots as the state held them, before
\* the utterance's own date and time are filled in
extract_datetime_combines_stored_slots(u, slots, now_wd, dp) ==
  LET tm == exact_time_match(u)
      s1 == IF IsSet(tm) THEN [slots EXCEPT !.time_slot = tm] ELSE slots
      dk == DateKeyword(u)
      s2 == IF IsSet(dk) THEN [s1 EXCEPT !.date_slot = dk] ELSE s1
      both == IsSet(slots.date_slot) /\ IsSet(slots.time_slot)
      parsed == IF both
                THEN parse_sales_date(
                       Phrase("", Val(slots.date_slot), FALSE,
                              Val(slots.time_slot)),
                       now_wd, dp)
                ELSE None
  IN  IF IsSet(parsed) THEN [s2 EXCEPT !.datetime = parsed]
      ELSE IF IsSet(s2.date_slot) /\ ~IsSet(s2.time_slot)
              /\ ~IsSet(s2.datetime)
      THEN [s2 EXCEPT !.suggested_time =
              Some(suggest_specific_time_from_slot(Val(s2.date_slot)))]
      ELSE s2

\* extract_datetime(user_utterance, state): the slots it leaves
extract_datetime(u, slots, now_wd, dp) ==
  LET tm == exact_time_match(u)
      s1 == IF IsSet(tm) THEN [slots EXCEPT !.time_slot = tm] ELSE slots
      dk == DateKeyword(u)
      s2 == IF IsSet(dk) THEN [s1 EXCEPT !.date_slot = dk] ELSE s1
      both == IsSet(s2.date_slot) /\ IsSet(s2.time_slot)
      parsed == IF both
                THEN parse_sales_date(
                       Phrase("", Val(s2.date_slot), FALSE, Val(s2.time_slot)),
                       now_wd, dp)
                ELSE None
  IN  IF IsSet(parsed) THEN [s2 EXCEPT !.datetime = parsed]
      ELSE IF IsSet(s2.date_slot) /\ ~IsSet(s2.time_slot)
              /\ ~IsSet(s2.datetime)
      THEN [s2 EXCEPT !.suggested_time =
              Some(suggest_specific_time_from_slot(Val(s2.date_slot)))]
      ELSE s2

---------------------------------------------------------------------------
(* planner.py: decide_next_action *)

IntroQuestionPhrases ==
  {"whos this", "who is this", "whats this", "what is this", "who's calling",
   "what's this about"}

ExplicitMeetingPhrases ==
  {"book a call", "schedule", "let's talk", "let me check my calendar",
   "set up", "we could", "sounds good", "let's do that", "sure let's",
   "that works"}

ExplicitSchedulingPhrases ==
  {"we can do the call", "yeah we can", "sounds good", "lets do it",
   "yes lets", "lets schedule"}

AskingForMorePhrases ==
  {"tell me more", "more about", "more details", "learn more",
   "explain more", "interesting"}

\* an intent table whose not_interested entry asks for clarification
IntentToAction_exit_as_unclear(st) ==
  LET u == UtteranceOf(st)
      info_provided == st.slots.info_provided
      is_intro_question == AnyIn(u, IntroQuestionPhrases)
      explicit_meeting == AnyIn(u, ExplicitMeetingPhrases)
                            \/ AnyIn(u, ExplicitSchedulingPhrases)
      is_asking_for_more == AnyIn(u, AskingForMorePhrases)
      intent == IF IsSet(st.intent) THEN Val(st.intent) ELSE "unclear"
  IN  CASE intent = "interested" ->
             IF ~info_provided THEN "provide_info"
             ELSE IF explicit_meeting THEN "propose_meeting"
             ELSE IF is_asking_for_more THEN "provide_more_info"
             ELSE "propose_meeting"
        [] intent = "busy" -> "reschedule"
        [] intent = "send_info" -> "ask_channel_pref"
        [] intent = "not_interested" -> "ask_for_clarification"
        [] intent = "question" ->
             IF st.phase = "intro" /\ is_intro_question THEN "provide_info"
             ELSE IF is_asking_for_more THEN "provide_more_info"
             ELSE IF info_provided THEN "answer_question"
             ELSE "provide_info"
        [] intent = "unclear" ->
             IF st.phase = "intro" /\ is_intro_question THEN "provide_info"
             ELSE "ask_for_clarification"
        [] OTHER -> "ask_for_clarification"

\* the intent_to_action table with its context-sensitive entries
IntentToAction(st) ==
  LET u == UtteranceOf(st)
      info_provided == st.slots.info_provided
      is_intro_question == AnyIn(u, IntroQuestionPhrases)
      explicit_meeting == AnyIn(u, ExplicitMeetingPhrases)
                            \/ AnyIn(u, ExplicitSchedulingPhrases)
      is_asking_for_more == AnyIn(u, AskingForMorePhrases)
      intent == IF IsSet(st.intent) THEN Val(st.intent) ELSE "unclear"
  IN  CASE intent = "interested" ->
             IF ~info_provided THEN "provide_info"
             ELSE IF explicit_meeting THEN "propose_meeting"
             ELSE IF is_asking_for_more THEN "provide_more_info"
             ELSE "propose_meeting"
        [] intent = "busy" -> "reschedule"
        [] intent = "send_info" -> "ask_channel_pref"
        [] intent = "not_interested" -> "graceful_exit"
        [] intent = "question" ->
             IF st.phase = "intro" /\ is_intro_question THEN "provide_info"
             ELSE IF is_asking_for_more THEN "provide_more_info"
             ELSE IF info_provided THEN "answer_question"
             ELSE "provide_info"
        [] intent = "unclear" ->
             IF st.phase = "intro" /\ is_intro_question THEN "provide_info"
             ELSE "ask_for_clarification"
        [] OTHER -> "ask_for_clarification"

\* a planner that lets the not_interested entry of the intent table win over
\* the slot rules
decide_next_action_exit_first(st) ==
  LET s == st.slots
  IN  IF st.intent = Some("not_interested") THEN "graceful_exit"
      ELSE IF IsSet(s.datetime) /\ ~Truthy(s.confirmation) THEN "confirm_meeting"
      ELSE IF IsSet(s.date_slot) /\ IsSet(s.time_slot) /\ ~IsSet(s.datetime)
      THEN "confirm_meeting"
      ELSE IF IsSet(s.date_slot) /\ ~IsSet(s.time_slot)
      THEN "propose_specific_time"
      ELSE IF IsSet(s.suggested_time) /\ ~IsSet(s.datetime)
      THEN "propose_specific_time"
      ELSE IntentToAction(st)

\* a planner that tests the suggested_time rule before the date/time rules
decide_next_action_suggested_first(st) ==
  LET s == st.slots
  IN  IF IsSet(s.datetime) /\ ~Truthy(s.confirmation) THEN "confirm_meeting"
      ELSE IF IsSet(s.suggested_time) /\ ~IsSet(s.datetime)
      THEN "propose_specific_time"
      ELSE IF IsSet(s.date_slot) /\ IsSet(s.time_slot) /\ ~IsSet(s.datetime)
      THEN "confirm_meeting"
      ELSE IF IsSet(s.date_slot) /\ ~IsSet(s.time_slot)
      THEN "propose_specific_time"
      ELSE IntentToAction(st)

\* a planner that trusts a confident shut_down tone over the intent table
decide_next_action_tone_aware(st) ==
  LET s == st.slots
  IN  IF IsSet(s.datetime) /\ ~Truthy(s.confirmation) THEN "confirm_meeting"
      ELSE IF IsSet(s.date_slot) /\ IsSet(s.time_slot) /\ ~IsSet(s.datetime)
      THEN "confirm_meeting"
      ELSE IF IsSet(s.date_slot) /\ ~IsSet(s.time_slot)
      THEN "propose_specific_time"
      ELSE IF IsSet(s.suggested_time) /\ ~IsSet(s.datetime)
      THEN "propose_specific_time"
      ELSE IF st.tone = Some("shut_down") /\ st.tone_confidence = Some(90)
      THEN "graceful_exit"
      ELSE IntentToAction(st)

decide_next_action(st) ==
  LET s == st.slots
  IN  IF IsSet(s.datetime) /\ ~Truthy(s.confirmation) THEN "confirm_meeting"
      ELSE IF IsSet(s.date_slot) /\ IsSet(s.time_slot) /\ ~IsSet(s.datetime)
      THEN "confirm_meeting"
      ELSE IF IsSet(s.date_slot) /\ ~IsSet(s.time_slot)
      THEN "propose_specific_time"
      ELSE IF IsSet(s.suggested_time) /\ ~IsSet(s.datetime)
      THEN "propose_specific_time"
      ELSE IntentToAction(st)

---------------------------------------------------------------------------
(* llm_tools.py: tone heuristic and reply generation *)

ShutDownIndicators == {"no", "stop", "not interested", "remove", "don't"}

RushedIndicators ==
  {"busy", "meeting", "hurry", "quick", "can't talk", "not a good time"}

SkepticalIndicators ==
  {"robocall", "scam", "spam", "sure about", "how do you", "is this"}

CuriousIndicators == {"?", "how", "what", "why", "explain", "tell me"}

FriendlyIndicators ==
  {"sure", "yes", "interested", "sounds good", "alright", "okay"}

Matches(u, indicators) == Cardinality({k \in indicators : Contains(u, k)})

Min(a, b) == IF a < b THEN a ELSE b

\* detect_tone_chain: the first tone with a matching indicator, else
\* friendly, and its confidence in hundredths
detect_tone_chain(u) ==
  LET shut_down_matches == Matches(u, ShutDownIndicators)
      rushed_matches == Matches(u, RushedIndicators)
      skeptical_matches == Matches(u, SkepticalIndicators)
      curious_matches == Matches(u, CuriousIndicators)
      friendly_matches == Matches(u, FriendlyIndicators)
  IN  IF shut_down_matches > 0
      THEN <<"shut_down", Min(90, 70 + shut_down_matches * 10)>>
      ELSE IF rushed_matches > 0
      THEN <<"rushed", Min(90, 70 + rushed_matches * 10)>>
      ELSE IF skeptical_matches > 0
      THEN <<"skeptical", Min(90, 70 + skeptical_matches * 10)>>
      ELSE IF curious_matches > 0
      THEN <<"curious", Min(85, 60 + curious_matches * 10)>>
      ELSE IF friendly_matches > 0
      THEN <<"friendly", Min(90, 80 + friendly_matches * 5)>>
      ELSE <<"friendly", 60>>

\* generate_reply_chain: the phrasing is the language model's; the reply is
\* kept as its parts, here the call to action of next_action
generate_reply_chain(next_action) == <<"reply", next_action>>

---------------------------------------------------------------------------
(* response_node.py: bridge_and_nudge_node.  A history record keeps the   *)
(* fields the turn computes (agent, turn, phase); its user, intent and tone*)
(* fields repeat the turn's inputs and are left out.                       *)

bridge_and_nudge_node(st, intent, now_wd, dp) ==
  LET u == UtteranceOf(st)
      tone_result == detect_tone_chain(u)
      s1 == [st EXCEPT !.intent = Some(intent),
                       !.tone = Some(tone_result[1]),
                       !.tone_confidence = Some(tone_result[2]),
                       !.slots = extract_datetime(u, st.slots, now_wd, dp)]
      next_action == decide_next_action(s1)
      agent_reply == generate_reply_chain(next_action)
      turn_number == Len(st.conversation_history) + 1
  IN  [s1 EXCEPT !.phase = next_action,
                 !.last_agent_reply = Some(agent_reply),
                 !.conversation_history =
                    Append(@, [agent |-> agent_reply, turn |-> turn_number,
                               phase |-> next_action])]

---------------------------------------------------------------------------
(* path_nodes.py *)

ConfirmationWords ==
  {"yes", "confirm", "sounds good", "perfect", "ok", "okay", "that works",
   "sure", "book it"}

RejectionWords == {"no", "not that time", "different time", "how about", "maybe"}

\* What a call of calendar.create_event can do as its callers see it: return
\* created=True, return created=False, or raise.  create_event's own try
\* block turns its failures into created=False (see create_event below); the
\* callers nevertheless wrap the call in try/except, and "raises" is the case
\* those handlers are written for
CalendarOutcomes == {"created", "not_created", "raises"}

\* start_dt.replace(hour=start_dt.hour + 1) raises ValueError at hour 23
EndTimeRaises(start_dt) == start_dt.hour + 1 > 23

\* the try block that books the event: the create_event calls it issues
\* (with what the calendar answered) and the kind of message it composes
BookEvent(start_dt, cal) ==
  IF EndTimeRaises(start_dt) THEN [calls |-> <<>>, msg |-> "no_invite"]
  ELSE [calls |-> <<[start |-> start_dt,
                     end |-> [start_dt EXCEPT !.hour = @ + 1],
                     outcome |-> cal]>>,
        msg |-> IF cal = "created" THEN "invite_shortly"
                ELSE IF cal = "not_created" THEN "invite_later"
                ELSE "no_invite"]

\* the fallback block's except branch words its message like created=False
BookEventFallback(start_dt, cal) ==
  LET b == BookEvent(start_dt, cal)
  IN  [b EXCEPT !.msg = IF @ = "no_invite" THEN "invite_later" ELSE @]

\* a confirm_meeting branch that takes the confirmation word alone as enough
ConfirmMeetingBranch_any_confirmation(st, cal) ==
  LET confirmed == AnyIn(UtteranceOf(st), ConfirmationWords)
      b == IF IsSet(st.slots.datetime) THEN BookEvent(Val(st.slots.datetime), cal)
           ELSE [calls |-> <<>>, msg |-> "no_invite"]
  IN  IF confirmed
      THEN [state |-> [st EXCEPT !.slots.confirmation = Some(TRUE),
                                 !.done = TRUE,
                                 !.last_agent_reply =
                                    Some(<<"confirmed", b.msg>>)],
            calls |-> b.calls]
      ELSE [state |-> st, calls |-> <<>>]

\* a confirm_meeting branch that ends the conversation only when the
\* calendar created the event
ConfirmMeetingBranch_done_when_created(st, cal) ==
  LET confirmed == AnyIn(UtteranceOf(st), ConfirmationWords)
  IN  IF confirmed /\ IsSet(st.slots.datetime)
      THEN LET b == BookEvent(Val(st.slots.datetime), cal)
           IN  [state |-> [st EXCEPT !.slots.confirmation = Some(TRUE),
                                     !.done = (b.msg = "invite_shortly"),
                                     !.last_agent_reply =
                                        Some(<<"confirmed", b.msg>>)],
                calls |-> b.calls]
      ELSE [state |-> st, calls |-> <<>>]

\* phase confirm_meeting: the state the node returns and the
\* calendar.create_event calls it made
ConfirmMeetingBranch(st, cal) ==
  LET confirmed == AnyIn(UtteranceOf(st), ConfirmationWords)
  IN  IF confirmed /\ IsSet(st.slots.datetime)
      THEN LET b == BookEvent(Val(st.slots.datetime), cal)
           IN  [state |-> [st EXCEPT !.slots.confirmation = Some(TRUE),
                                     !.done = TRUE,
                                     !.last_agent_reply =
                                        Some(<<"confirmed", b.msg>>)],
                calls |-> b.calls]
      ELSE [state |-> st, calls |-> <<>>]

\* a propose_specific_time branch that takes the lead's yes as the
\* confirmation even when the suggestion could not be resolved
ProposeSpecificTimeBranch_confirms_unresolved(st, now_wd, dp) ==
  LET u == UtteranceOf(st)
      confirmed == AnyIn(u, ConfirmationWords)
      rejected == AnyIn(u, RejectionWords)
      proposed_time == IF IsSet(st.slots.suggested_time)
                       THEN Val(st.slots.suggested_time) ELSE EmptyPhrase
      parsed == parse_sales_date(proposed_time, now_wd, dp)
  IN  IF confirmed
      THEN IF IsSet(parsed)
           THEN [state |-> [st EXCEPT !.slots.datetime = parsed,
                                      !.slots.confirmation = Some(TRUE)],
                 calls |-> <<>>]
           ELSE [state |-> [st EXCEPT !.slots.confirmation = Some(TRUE)],
                 calls |-> <<>>]
      ELSE IF rejected
      THEN [state |-> [st EXCEPT !.slots =
                          extract_datetime(u, st.slots, now_wd, dp)],
            calls |-> <<>>]
      ELSE [state |-> st, calls |-> <<>>]

\* a branch that looks for the rejection word first
ProposeSpecificTimeBranch_rejection_first(st, now_wd, dp) ==
  LET u == UtteranceOf(st)
      confirmed == AnyIn(u, ConfirmationWords)
      rejected == AnyIn(u, RejectionWords)
      proposed_time == IF IsSet(st.slots.suggested_time)
                       THEN Val(st.slots.suggested_time) ELSE EmptyPhrase
      parsed == parse_sales_date(proposed_time, now_wd, dp)
  IN  IF rejected
      THEN [state |-> [st EXCEPT !.slots =
                          extract_datetime(u, st.slots, now_wd, dp)],
            calls |-> <<>>]
      ELSE IF confirmed /\ IsSet(parsed)
      THEN [state |-> [st EXCEPT !.slots.datetime = parsed,
                                 !.slots.confirmation = Some(TRUE)],
            calls |-> <<>>]
      ELSE [state |-> st, calls |-> <<>>]

\* phase propose_specific_time: a confirmed suggestion is resolved and
\* stored, a rejected one re-runs the extraction; the node then returns
ProposeSpecificTimeBranch(st, now_wd, dp) ==
  LET u == UtteranceOf(st)
      confirmed == AnyIn(u, ConfirmationWords)
      rejected == AnyIn(u, RejectionWords)
      proposed_time == IF IsSet(st.slots.suggested_time)
                       THEN Val(st.slots.suggested_time) ELSE EmptyPhrase
      parsed == parse_sales_date(proposed_time, now_wd, dp)
  IN  IF confirmed
      THEN IF IsSet(parsed)
           THEN [state |-> [st EXCEPT !.slots.datetime = parsed,
                                      !.slots.confirmation = Some(TRUE)],
                 calls |-> <<>>]
           ELSE [state |-> st, calls |-> <<>>]
      ELSE IF rejected
      THEN [state |-> [st EXCEPT !.slots =
                          extract_datetime(u, st.slots, now_wd, dp)],
            calls |-> <<>>]
      ELSE [state |-> st, calls |-> <<>>]

\* a closing block that books whenever a confirmed datetime is there, the
\* conversation being done or not
FallbackFinalize_books_when_done(st, cal) ==
  LET confirmed == AnyIn(UtteranceOf(st), ConfirmationWords)
      has_datetime == IsSet(st.slots.datetime)
      is_confirmed == confirmed \/ Truthy(st.slots.confirmation)
  IN  IF has_datetime /\ is_confirmed
      THEN LET b == BookEventFallback(Val(st.slots.datetime), cal)
           IN  [state |-> [st EXCEPT !.done = TRUE,
                                     !.last_agent_reply =
                                        IF IsSet(@)
                                        THEN Some(Val(@) \o <<"locked_in", b.msg>>)
                                        ELSE Some(<<"locked_in", b.msg>>)],
                calls |-> b.calls]
      ELSE [state |-> st, calls |-> <<>>]

\* the other phases: finalize when a datetime is there and the meeting is
\* confirmed (now or earlier) and the conversation is not done yet
FallbackFinalize(st, cal) ==
  LET confirmed == AnyIn(UtteranceOf(st), ConfirmationWords)
      has_datetime == IsSet(st.slots.datetime)
      is_confirmed == confirmed \/ Truthy(st.slots.confirmation)
  IN  IF has_datetime /\ is_confirmed /\ ~st.done
      THEN LET b == BookEventFallback(Val(st.slots.datetime), cal)
           IN  [state |-> [st EXCEPT !.done = TRUE,
                                     !.last_agent_reply =
                                        IF IsSet(@)
                                        THEN Some(Val(@) \o <<"locked_in", b.msg>>)
                                        ELSE Some(<<"locked_in", b.msg>>)],
                calls |-> b.calls]
      ELSE [state |-> st, calls |-> <<>>]

\* schedule_path_node(state, user_utterance): the state it returns and the
\* calendar.create_event calls it made
schedule_path_node(st, now_wd, dp, cal) ==
  IF st.phase = "confirm_meeting" THEN ConfirmMeetingBranch(st, cal)
  ELSE IF st.phase = "propose_specific_time"
  THEN ProposeSpecificTimeBranch(st, now_wd, dp)
  ELSE FallbackFinalize(st, cal)

\* a node that infers the channel from every utterance, the preference it
\* already has notwithstanding
send_info_path_node_reinfers(st) ==
  LET u == UtteranceOf(st)
      s1 == IF Contains(u, "email") \/ Contains(u, "@")
            THEN [st EXCEPT !.slots.channel_pref = Some("email")]
            ELSE IF Contains(u, "text") \/ Contains(u, "sms")
            THEN [st EXCEPT !.slots.channel_pref = Some("sms")]
            ELSE st
  IN  IF IsSet(s1.slots.channel_pref)
      THEN [s1 EXCEPT !.slots.info_sent = TRUE,
                      !.last_agent_reply =
                         Some(<<"info_sent",
                                IF Val(s1.slots.channel_pref) = "email"
                                THEN "email" ELSE "text">>),
                      !.phase = "propose_meeting"]
      ELSE s1

\* a node that ends the call once the information is on its way
send_info_path_node_ends_call(st) ==
  LET u == UtteranceOf(st)
      s1 == IF ~IsSet(st.slots.channel_pref)
            THEN IF Contains(u, "email") \/ Contains(u, "@")
                 THEN [st EXCEPT !.slots.channel_pref = Some("email")]
                 ELSE IF Contains(u, "text") \/ Contains(u, "sms")
                 THEN [st EXCEPT !.slots.channel_pref = Some("sms")]
                 ELSE st
            ELSE st
  IN  IF IsSet(s1.slots.channel_pref)
      THEN [s1 EXCEPT !.slots.info_sent = TRUE,
                      !.last_agent_reply =
                         Some(<<"info_sent",
                                IF Val(s1.slots.channel_pref) = "email"
                                THEN "email" ELSE "text">>),
                      !.phase = "propose_meeting",
                      !.done = TRUE]
      ELSE s1

send_info_path_node(st) ==
  LET u == UtteranceOf(st)
      s1 == IF ~IsSet(st.slots.channel_pref)
            THEN IF Contains(u, "email") \/ Contains(u, "@")
                 THEN [st EXCEPT !.slots.channel_pref = Some("email")]
                 ELSE IF Contains(u, "text") \/ Contains(u, "sms")
                 THEN [st EXCEPT !.slots.channel_pref = Some("sms")]
                 ELSE st
            ELSE st
  IN  IF IsSet(s1.slots.channel_pref)
      THEN [s1 EXCEPT !.slots.info_sent = TRUE,
                      !.last_agent_reply =
                         Some(<<"info_sent",
                                IF Val(s1.slots.channel_pref) = "email"
                                THEN "email" ELSE "text">>),
                      !.phase = "propose_meeting"]
      ELSE s1

\* a closing node that words the goodbye but does not end the conversation
not_interested_node_keeps_open(st) ==
  [st EXCEPT !.last_agent_reply = IF IsSet(@) THEN Some(Val(@) \o <<"thanks">>)
                                  ELSE Some(<<"understood">>)]

not_interested_node(st) ==
  [st EXCEPT !.done = TRUE,
             !.last_agent_reply = IF IsSet(@) THEN Some(Val(@) \o <<"thanks">>)
                                  ELSE Some(<<"understood">>)]

\* an information node that re-opens the conversation it continues
provide_info_node_reopens(st) ==
  [st EXCEPT !.slots.info_provided = TRUE, !.done = FALSE]

provide_info_node(st) == [st EXCEPT !.slots.info_provided = TRUE]

\* a node that hands the conversation to propose_meeting after the details
provide_more_info_node_hands_back(st) ==
  [st EXCEPT !.slots.more_info_provided = TRUE, !.phase = "propose_meeting"]

provide_more_info_node(st) == [st EXCEPT !.slots.more_info_provided = TRUE]

\* a node that waits for the third question before it suggests a meeting
answer_question_node_suggests_late(st) ==
  LET questions_asked == IF IsSet(st.slots.questions_asked)
                         THEN Val(st.slots.questions_asked) ELSE 0
  IN  [st EXCEPT !.slots.questions_asked = Some(questions_asked + 1),
                 !.slots.suggest_meeting_after_answer =
                    IF questions_asked >= 2 THEN TRUE ELSE @]

answer_question_node(st) ==
  LET questions_asked == IF IsSet(st.slots.questions_asked)
                         THEN Val(st.slots.questions_asked) ELSE 0
  IN  [st EXCEPT !.slots.questions_asked = Some(questions_asked + 1),
                 !.slots.suggest_meeting_after_answer =
                    IF questions_asked >= 1 THEN TRUE ELSE @]

close_out_node(st) == st

---------------------------------------------------------------------------
(* graph.py: the phase router *)

\* a routing table that has no edge for ask_for_clarification
RoutingTable_without_clarification(phase) ==
  CASE phase \in {"confirm_meeting", "propose_meeting", "reschedule",
                  "clarify_time", "propose_specific_time"} -> "schedule_path"
    [] phase = "provide_info" -> "provide_info_path"
    [] phase = "provide_more_info" -> "provide_more_info_path"
    [] phase = "answer_question" -> "answer_question_path"
    [] phase = "ask_channel_pref" -> "send_info_path"
    [] phase = "graceful_exit" -> "not_interested_path"
    [] OTHER -> "no_edge"

\* the conditional edges of route_next_action; a phase that is no key of the
\* table has no edge
RoutingTable(phase) ==
  CASE phase \in {"confirm_meeting", "propose_meeting", "reschedule",
                  "clarify_time", "propose_specific_time",
                  "ask_for_clarification"} -> "schedule_path"
    [] phase = "provide_info" -> "provide_info_path"
    [] phase = "provide_more_info" -> "provide_more_info_path"
    [] phase = "answer_question" -> "answer_question_path"
    [] phase = "ask_channel_pref" -> "send_info_path"
    [] phase = "graceful_exit" -> "not_interested_path"
    [] OTHER -> "no_edge"

---------------------------------------------------------------------------
(* schemas.py, nlu.py, flows/sales.py: the SessionState flow behind         *)
(* orchestrator.handle_turn.  Of the session's slots the flow reads         *)
(* parsed_datetime and the presence of confirmation; the other keys         *)
(* (time_mentioned, time_pattern, lead_name, lead_company) are only written *)
(* and are left out.  A reply is kept as its kind and whether its text      *)
(* holds one of the interested_indicators of _is_interested_context.        *)

\* SessionState(session_id, lead, slots={}, history=[], done=False)
NewSessionState ==
  [slots |-> [parsed_datetime |-> None, confirmation |-> FALSE],
   history |-> <<>>, done |-> FALSE]

SessionIntents ==
  {"interested", "busy", "send_info", "reject", "schedule_followup", "unknown"}

\* What nlu.parse answers (by keywords or through the language model): an
\* intent and slots, in which parsed_datetime is absent, an ISO string or
\* another string; or dateparser raises
ParseOutcomes ==
  {[kind |-> "parsed", intent |-> i, parsed_datetime |-> d] :
     i \in SessionIntents, d \in {None, Some("iso"), Some("not_iso")}}
    \cup {[kind |-> "raises", intent |-> "unknown", parsed_datetime |-> None]}

PositiveWords ==
  {"yes", "confirm", "sounds good", "perfect", "absolutely", "definitely",
   "sure", "ok", "okay", "great", "excellent"}

NegativeWords ==
  {"no", "cancel", "not interested", "remove", "stop", "don't", "won't"}

Reply(kind, demo, tool_calls, final) ==
  [reply |-> [kind |-> kind, demo |-> demo], tool_calls |-> tool_calls,
   final |-> final]

\* _is_interested_context: the last agent message asked for a demo time
_is_interested_context(session) ==
  /\ session.history # <<>>
  /\ session.history[Len(session.history)].agent.demo

\* _schedule_meeting_with_type(state, meeting_type): the response and the
\* slots it leaves
_schedule_meeting_with_type(session, meeting_type) ==
  LET parsed_dt_str == session.slots.parsed_datetime
      tool_calls == <<"calendar.create_event", "crm_stub.log_followup">>
  IN  IF ~IsSet(parsed_dt_str)
      THEN [response |-> Reply("ask_time", meeting_type = "demo", <<>>, FALSE),
            slots |-> session.slots]
      ELSE IF Val(parsed_dt_str) # "iso"
      THEN [response |-> Reply("clarify_time", FALSE, <<>>, FALSE),
            slots |-> session.slots]
      ELSE IF meeting_type = "demo"
      THEN [response |-> Reply("demo_proposed", TRUE, tool_calls, FALSE),
            slots |-> [session.slots EXCEPT !.confirmation = TRUE]]
      ELSE [response |-> Reply("followup_booked", FALSE, tool_calls, TRUE),
            slots |-> session.slots]

\* _handle_confirmation
_handle_confirmation(session, u) ==
  LET has_positive == AnyIn(u, PositiveWords)
      has_negative == AnyIn(u, NegativeWords)
  IN  IF has_positive /\ ~has_negative
      THEN Reply("demo_confirmed", TRUE, <<>>, TRUE)
      ELSE Reply("no_problem", FALSE, <<>>, TRUE)

\* next_agent_reply(state, user_utterance) after nlu.parse answered po: the
\* response and the slots it leaves
next_agent_reply(session, u, po) ==
  LET slots == IF IsSet(po.parsed_datetime)
               THEN [session.slots EXCEPT !.parsed_datetime = po.parsed_datetime]
               ELSE session.slots
      s1 == [session EXCEPT !.slots = slots]
      keep(r) == [response |-> r, slots |-> slots]
      has_time == IsSet(slots.parsed_datetime)
  IN  IF Len(session.history) = 0
      THEN keep(Reply("greeting", FALSE, <<>>, FALSE))
      ELSE IF slots.confirmation THEN keep(_handle_confirmation(s1, u))
      ELSE CASE po.intent = "interested" ->
                  IF has_time THEN _schedule_meeting_with_type(s1, "demo")
                  ELSE keep(Reply("ask_demo_time", TRUE, <<>>, FALSE))
             [] po.intent = "busy" ->
                  IF has_time THEN _schedule_meeting_with_type(s1, "followup")
                  ELSE keep(Reply("ask_callback_time", FALSE, <<>>, FALSE))
             [] po.intent = "send_info" ->
                  keep(Reply("send_info", FALSE, <<"crm_stub.log_outcome">>, FALSE))
             [] po.intent = "reject" ->
                  keep(Reply("rejected", FALSE, <<"crm_stub.log_outcome">>, TRUE))
             [] po.intent = "schedule_followup" ->
                  IF _is_interested_context(s1)
                  THEN _schedule_meeting_with_type(s1, "demo")
                  ELSE IF has_time THEN _schedule_meeting_with_type(s1, "followup")
                  ELSE keep(Reply("ask_followup_time", FALSE, <<>>, FALSE))
             [] OTHER -> keep(Reply("unknown", FALSE, <<>>, FALSE))

---------------------------------------------------------------------------
(* graph.py: run_conversation_turn, one step per node of the graph *)

VARIABLES
  state,           \* the ConversationState of the session
  pc,              \* "idle" between turns, else the node about to run
  now_weekday,     \* datetime.now().weekday() of the call, monday = 0
  calendar_calls,  \* the calendar.create_event calls made so far
  turn_start,      \* the state handed to graph.invoke by a turn in progress
                   \* that was started on a finished conversation (done)
  confirmed_by,    \* the utterance whose confirmation word set confirmation
  planned,         \* the last result of decide_next_action
  entry_point,     \* the function the program drives its conversation with
  sessions,        \* orchestrator.sessions at the program's session id
  response,        \* what the last handle_turn returned
  parse_result,    \* the last direct call of parse_sales_date: text and result
  arrivals,        \* the turns submitted to the server for the session, in
                   \* arrival order (a turn's id is its place)
  in_flight,       \* the turns handle_turn has begun and not yet returned
  begun,           \* the ids of the turns in the order handle_turn began them
  returned,        \* the ids of the turns in the order handle_turn returned
  current_session_id,  \* VoiceSalesAgent.current_session_id
  event_result     \* the last direct call of calendar.create_event: its
                   \* arguments, what the service did, and what it gave back

graph_vars ==
  <<state, pc, now_weekday, calendar_calls, turn_start, confirmed_by, planned>>

session_vars == <<entry_point, sessions, response>>

resolver_vars == <<parse_result>>

server_vars == <<arrivals, in_flight, begun, returned>>

voice_vars == <<current_session_id>>

vars ==
  <<graph_vars, session_vars, resolver_vars, server_vars, voice_vars,
    event_result>>

\* what the lead says in a turn
Utterances ==
  {{}, {"yes"}, {"tomorrow"}, {"tomorrow", "2pm"}, {"tomorrow", "11pm"},
   {"2pm"}, {"today", "2pm"}, {"email"}, {"not interested"}, {"tell me more"}}

\* the weekday on which the call takes place (a saturday)
CallWeekdays == {5}

\* terminal/demo.py and the voice demos call run_conversation_turn on a
\* ConversationState; app/main.py, the webhook, the voice agent and the
\* evaluation scripts call orchestrator.handle_turn
EntryPoints == {"run_conversation_turn", "handle_turn"}

Init ==
  /\ state = NewConversationState
  /\ pc = "idle"
  /\ now_weekday \in CallWeekdays
  /\ calendar_calls = <<>>
  /\ turn_start = None
  /\ confirmed_by = None
  /\ planned = None
  /\ entry_point \in EntryPoints
  /\ sessions = None
  /\ response = None
  /\ parse_result = None
  /\ arrivals = <<>>
  /\ in_flight = {}
  /\ begun = <<>>
  /\ returned = <<>>
  /\ current_session_id = None
  /\ event_result = None

\* run_conversation_turn(state, user_utterance) up to graph.invoke
StartTurn(u) ==
  /\ entry_point = "run_conversation_turn"
  /\ pc = "idle"
  /\ Len(state.conversation_history) < MaxTurns
  /\ state' = [state EXCEPT !.current_user_utterance = Some(u)]
  /\ turn_start' = IF state.done THEN Some(state') ELSE None
  /\ pc' = "bridge_and_nudge"
  /\ UNCHANGED <<now_weekday, calendar_calls, confirmed_by, planned>>
  /\ UNCHANGED session_vars
  /\ UNCHANGED resolver_vars
  /\ UNCHANGED server_vars
  /\ UNCHANGED <<voice_vars, event_result>>

\* the entry node bridge_and_nudge, then route_next_action (which passes the
\* state through) and its conditional edge on state.phase
route_next_action(st) == st

BridgeAndNudge(intent, dp) ==
  /\ pc = "bridge_and_nudge"
  /\ state' = route_next_action(
                bridge_and_nudge_node(state, intent, now_weekday, dp))
  /\ planned' = Some(state'.phase)
  /\ pc' = RoutingTable(state'.phase)
  /\ UNCHANGED <<now_weekday, calendar_calls, turn_start, confirmed_by>>
  /\ UNCHANGED session_vars
  /\ UNCHANGED resolver_vars
  /\ UNCHANGED server_vars
  /\ UNCHANGED <<voice_vars, event_result>>

\* Each path node is followed by close_out (which passes the state through)
\* and END; pc = "end" is the graph's result before the turn returns.
SchedulePath(dp, cal) ==
  /\ pc = "schedule_path"
  /\ LET r == schedule_path_node(state, now_weekday, dp, cal)
     IN  /\ state' = close_out_node(r.state)
         /\ calendar_calls' = calendar_calls \o r.calls
         /\ confirmed_by' =
              IF Truthy(r.state.slots.confirmation)
                 /\ ~Truthy(state.slots.confirmation)
              THEN state.current_user_utterance ELSE confirmed_by
  /\ pc' = "end"
  /\ UNCHANGED <<now_weekday, turn_start, planned>>
  /\ UNCHANGED session_vars
  /\ UNCHANGED resolver_vars
  /\ UNCHANGED server_vars
  /\ UNCHANGED <<voice_vars, event_result>>

SendInfoPath ==
  /\ pc = "send_info_path"
  /\ state' = close_out_node(send_info_path_node(state))
  /\ pc' = "end"
  /\ UNCHANGED <<now_weekday, calendar_calls, turn_start, confirmed_by, planned>>
  /\ UNCHANGED session_vars
  /\ UNCHANGED resolver_vars
  /\ UNCHANGED server_vars
  /\ UNCHANGED <<voice_vars, event_result>>

NotInterestedPath ==
  /\ pc = "not_interested_path"
  /\ state' = close_out_node(not_interested_node(state))
  /\ pc' = "end"
  /\ UNCHANGED <<now_weekday, calendar_calls, turn_start, confirmed_by, planned>>
  /\ UNCHANGED session_vars
  /\ UNCHANGED resolver_vars
  /\ UNCHANGED server_vars
  /\ UNCHANGED <<voice_vars, event_result>>

ProvideInfoPath ==
  /\ pc = "provide_info_path"
  /\ state' = close_out_node(provide_info_node(state))
  /\ pc' = "end"
  /\ UNCHANGED <<now_weekday, calendar_calls, turn_start, confirmed_by, planned>>
  /\ UNCHANGED session_vars
  /\ UNCHANGED resolver_vars
  /\ UNCHANGED server_vars
  /\ UNCHANGED <<voice_vars, event_result>>

ProvideMoreInfoPath ==
  /\ pc = "provide_more_info_path"
  /\ state' = close_out_node(provide_more_info_node(state))
  /\ pc' = "end"
  /\ UNCHANGED <<now_weekday, calendar_calls, turn_start, confirmed_by, planned>>
  /\ UNCHANGED session_vars
  /\ UNCHANGED resolver_vars
  /\ UNCHANGED server_vars
  /\ UNCHANGED <<voice_vars, event_result>>

AnswerQuestionPath ==
  /\ pc = "answer_question_path"
  /\ state' = close_out_node(answer_question_node(state))
  /\ pc' = "end"
  /\ UNCHANGED <<now_weekday, calendar_calls, turn_start, confirmed_by, planned>>
  /\ UNCHANGED session_vars
  /\ UNCHANGED resolver_vars
  /\ UNCHANGED server_vars
  /\ UNCHANGED <<voice_vars, event_result>>

\* a return that keeps only the latest two records of the history
ReturnTurn_windowed_history ==
  /\ pc = "end"
  /\ state' = [state EXCEPT
                 !.current_user_utterance = None,
                 !.conversation_history =
                    IF Len(@) > 2 THEN SubSeq(@, Len(@) - 1, Len(@)) ELSE @]
  /\ turn_start' = None
  /\ pc' = "idle"
  /\ UNCHANGED <<now_weekday, calendar_calls, confirmed_by, planned>>
  /\ UNCHANGED session_vars
  /\ UNCHANGED resolver_vars
  /\ UNCHANGED server_vars
  /\ UNCHANGED <<voice_vars, event_result>>

\* the rest of run_conversation_turn: the utterance is cleared and the state
\* returned to the caller
ReturnTurn ==
  /\ pc = "end"
  /\ state' = [state EXCEPT !.current_user_utterance = None]
  /\ turn_start' = None
  /\ pc' = "idle"
  /\ UNCHANGED <<now_weekday, calendar_calls, confirmed_by, planned>>
  /\ UNCHANGED session_vars
  /\ UNCHANGED resolver_vars
  /\ UNCHANGED server_vars
  /\ UNCHANGED <<voice_vars, event_result>>

\* _execute_tool_call: the tool's answer, or its error
_execute_tool_call(tool_call, cal, crm) ==
  [name |-> tool_call,
   result |-> IF tool_call = "calendar.create_event" THEN cal ELSE crm]

CrmOutcomes == {"logged", "raises"}

SessionUtterances == {{}, {"yes"}, {"not interested"}}

\* a handle_turn whose error branch closes the session
HandleTurn_error_ends_session(u, po, cal, crm) ==
  /\ entry_point = "handle_turn"
  /\ LET session == IF IsSet(sessions) THEN Val(sessions) ELSE NewSessionState
         r == next_agent_reply(session, u, po)
         tool_results ==
           [i \in 1..Len(r.response.tool_calls) |->
              _execute_tool_call(r.response.tool_calls[i], cal, crm)]
         error_reply == [kind |-> "error", demo |-> FALSE]
     IN  /\ Len(session.history) < MaxTurns
         /\ IF po.kind = "raises"
            THEN /\ sessions' = Some([session EXCEPT
                                        !.history =
                                           Append(@, [agent |-> error_reply]),
                                        !.done = TRUE])
                 /\ response' = Some([reply |-> error_reply,
                                      tool_results |-> <<[name |-> "", result |-> "error"]>>,
                                      final |-> FALSE])
            ELSE /\ sessions' =
                      Some([session EXCEPT
                              !.slots = r.slots,
                              !.history = Append(@, [agent |-> r.response.reply]),
                              !.done = IF r.response.final THEN TRUE ELSE @])
                 /\ response' = Some([reply |-> r.response.reply,
                                      tool_results |-> tool_results,
                                      final |-> r.response.final])
  /\ UNCHANGED <<entry_point, graph_vars, resolver_vars, server_vars, voice_vars, event_result>>

\* handle_turn(session_id, lead, user_text) on the registry entry sess: the
\* session is made when missing; nlu.parse answers po and the tools answer
\* cal and crm.  A history entry keeps the agent text of the TraceTurn.
\* The registry entry it leaves and the dict it returns.
handle_turn(sess, u, po, cal, crm) ==
  LET session == IF IsSet(sess) THEN Val(sess) ELSE NewSessionState
      r == next_agent_reply(session, u, po)
      tool_results ==
        [i \in 1..Len(r.response.tool_calls) |->
           _execute_tool_call(r.response.tool_calls[i], cal, crm)]
      error_reply == [kind |-> "error", demo |-> FALSE]
  IN  IF po.kind = "raises"
      THEN [sessions |-> Some([session EXCEPT !.history =
                                 Append(@, [agent |-> error_reply])]),
            response |-> Some([reply |-> error_reply,
                               tool_results |-> <<[name |-> "", result |-> "error"]>>,
                               final |-> FALSE])]
      ELSE [sessions |->
              Some([session EXCEPT
                      !.slots = r.slots,
                      !.history = Append(@, [agent |-> r.response.reply]),
                      !.done = IF r.response.final THEN TRUE ELSE @]),
            response |-> Some([reply |-> r.response.reply,
                               tool_results |-> tool_results,
                               final |-> r.response.final])]

\* the number of turns the registry entry has recorded
TurnsOf(sess) == IF IsSet(sess) THEN Len(Val(sess).history) ELSE 0

\* a caller's handle_turn on the session of the program
HandleTurn(u, po, cal, crm) ==
  /\ entry_point = "handle_turn"
  /\ TurnsOf(sessions) < MaxTurns
  /\ sessions' = handle_turn(sessions, u, po, cal, crm).sessions
  /\ response' = handle_turn(sessions, u, po, cal, crm).response
  /\ UNCHANGED <<entry_point, graph_vars, resolver_vars, server_vars, voice_vars, event_result>>

\* create_session(session_id, lead)
CreateSession ==
  /\ entry_point = "handle_turn"
  /\ sessions' = Some(NewSessionState)
  /\ UNCHANGED <<entry_point, response, graph_vars, resolver_vars, server_vars, voice_vars, event_result>>

\* clear_session(session_id)
ClearSession ==
  /\ entry_point = "handle_turn"
  /\ IsSet(sessions)
  /\ sessions' = None
  /\ UNCHANGED <<entry_point, response, graph_vars, resolver_vars, server_vars, voice_vars, event_result>>

Next ==
  \/ \E u \in Utterances : StartTurn(u)
  \/ \E intent \in Intents, dp \in DateparserOutcomes : BridgeAndNudge(intent, dp)
  \/ \E dp \in DateparserOutcomes, cal \in CalendarOutcomes : SchedulePath(dp, cal)
  \/ SendInfoPath
  \/ NotInterestedPath
  \/ ProvideInfoPath
  \/ ProvideMoreInfoPath
  \/ AnswerQuestionPath
  \/ ReturnTurn
  \/ \E u \in SessionUtterances, po \in ParseOutcomes, cal \in CalendarOutcomes,
        crm \in CrmOutcomes : HandleTurn(u, po, cal, crm)
  \/ CreateSession
  \/ ClearSession

Spec == Init /\ [][Next]_vars

---------------------------------------------------------------------------
(* The turn loop over a wider choice of utterances: the lead says one of   *)
(* TurnUtterances in every turn; the conversation goes on after a turn     *)
(* when it was one of the first PriorTurns turns and its utterance is one  *)
(* of PriorUtterances.                                                     *)

PriorTurns == 2

PriorUtterances ==
  {{}, {"today"}, {"tomorrow"}, {"tomorrow", "2pm"}, {"yes"}, {"email"},
   {"text me"}}

TurnUtterances ==
  PriorUtterances
    \cup {{"no"}, {"no", "friday"}, {"email", "text me"}, {"tell me more"},
          {"yes", "tomorrow", "2pm"}, {"yes", "no"}}

InitTurn ==
  /\ state = NewConversationState
  /\ pc = "idle"
  /\ now_weekday \in CallWeekdays
  /\ calendar_calls = <<>>
  /\ turn_start = None
  /\ confirmed_by = None
  /\ planned = None
  /\ entry_point = "run_conversation_turn"
  /\ sessions = None
  /\ response = None
  /\ parse_result = None
  /\ arrivals = <<>>
  /\ in_flight = {}
  /\ begun = <<>>
  /\ returned = <<>>
  /\ current_session_id = None
  /\ event_result = None

\* the return of one of the earlier turns
ReturnPriorTurn ==
  /\ Len(state.conversation_history) <= PriorTurns
  /\ UtteranceOf(state) \in PriorUtterances
  /\ ReturnTurn

NextTurn ==
  \/ \E u \in TurnUtterances : StartTurn(u)
  \/ \E intent \in Intents, dp \in DateparserOutcomes : BridgeAndNudge(intent, dp)
  \/ \E dp \in DateparserOutcomes, cal \in CalendarOutcomes : SchedulePath(dp, cal)
  \/ SendInfoPath
  \/ NotInterestedPath
  \/ ProvideInfoPath
  \/ ProvideMoreInfoPath
  \/ AnswerQuestionPath
  \/ ReturnPriorTurn

SpecTurn == InitTurn /\ [][NextTurn]_vars

---------------------------------------------------------------------------
(* planner.decide_next_action as a function of an arbitrary state: the     *)
(* planner is called on one ConversationState built by PlanState            *)

PlanPhases == {"intro", "confirm_meeting", "propose_specific_time",
               "graceful_exit"}

PlanUtterances ==
  {{}, {"who is this"}, {"sounds good"}, {"tell me more"}, {"not interested"},
   {"sounds good", "tell me more"}}

OneOrNone(v) == {None, Some(v)}

PlanSlots ==
  {[EmptySlots EXCEPT !.date_slot = d, !.time_slot = t, !.datetime = dt,
                      !.suggested_time = sg, !.confirmation = c,
                      !.info_provided = ip] :
     d \in OneOrNone("tomorrow"), t \in OneOrNone("2pm"),
     dt \in OneOrNone([day |-> 1, hour |-> 14, minute |-> 0]),
     sg \in OneOrNone(Phrase("", "tomorrow", TRUE, "2pm")),
     c \in {None, Some(FALSE), Some(TRUE)}, ip \in BOOLEAN}

\* tone and tone_confidence are written together: both absent, or a tone
\* with a confidence (in hundredths)
PlanConfidences == {60, 90}

PlanTones ==
  {[tone |-> None, tone_confidence |-> None]}
    \cup {[tone |-> Some(t), tone_confidence |-> Some(c)] :
            t \in Tones, c \in PlanConfidences}

PlanState(ph, i, tn, sl, u) ==
  [NewConversationState EXCEPT !.phase = ph, !.intent = i, !.tone = tn.tone,
                               !.tone_confidence = tn.tone_confidence,
                               !.slots = sl, !.current_user_utterance = Some(u)]

InitPlan ==
  /\ \E ph \in PlanPhases, i \in {None} \cup {Some(x) : x \in Intents},
        tn \in PlanTones, sl \in PlanSlots, u \in PlanUtterances :
       state = PlanState(ph, i, tn, sl, u)
  /\ pc = "plan"
  /\ now_weekday \in CallWeekdays
  /\ calendar_calls = <<>>
  /\ turn_start = None
  /\ confirmed_by = None
  /\ planned = None
  /\ entry_point = "run_conversation_turn"
  /\ sessions = None
  /\ response = None
  /\ parse_result = None
  /\ arrivals = <<>>
  /\ in_flight = {}
  /\ begun = <<>>
  /\ returned = <<>>
  /\ current_session_id = None
  /\ event_result = None

\* next_action = decide_next_action(state)
Plan ==
  /\ pc = "plan"
  /\ planned' = Some(decide_next_action(state))
  /\ pc' = "planned"
  /\ UNCHANGED <<state, now_weekday, calendar_calls, turn_start, confirmed_by>>
  /\ UNCHANGED session_vars
  /\ UNCHANGED resolver_vars
  /\ UNCHANGED server_vars
  /\ UNCHANGED <<voice_vars, event_result>>

NextPlan == Plan

SpecPlan == InitPlan /\ [][NextPlan]_vars

---------------------------------------------------------------------------
(* The resolver and slot extraction on every day of the week: either      *)
(* parse_sales_date is called once on a phrase, or the slots of a fresh    *)
(* state are filled by extraction from one utterance after another.        *)

DatePrefixes == {"", "next", "this", "next week"}

DatePhrases ==
  {Phrase(pre, d, at, t) :
     pre \in DatePrefixes, d \in WeekdayWords, at \in BOOLEAN,
     t \in {"", "2pm", "15pm"}}
    \cup {Phrase("", "tomorrow", at, t) :
            at \in BOOLEAN, t \in {"", "2pm", "15pm"}}
    \cup {Phrase("later", "today", TRUE, "4pm")}

\* the weekdays the lead names in an utterance
UtteranceWeekdays == {"monday", "friday"}

DateUtterances ==
  {ws \cup ts :
     ws \in {{}, {"today"}, {"tomorrow"}, {"next week"}}
            \cup {{d} : d \in UtteranceWeekdays}
            \cup {{"next week", d} : d \in UtteranceWeekdays},
     ts \in {{}, {"2pm"}, {"15pm"}}}

InitDate ==
  /\ state = NewConversationState
  /\ pc = "idle"
  /\ now_weekday \in 0..6
  /\ calendar_calls = <<>>
  /\ turn_start = None
  /\ confirmed_by = None
  /\ planned = None
  /\ entry_point = "run_conversation_turn"
  /\ sessions = None
  /\ response = None
  /\ parse_result = None
  /\ arrivals = <<>>
  /\ in_flight = {}
  /\ begun = <<>>
  /\ returned = <<>>
  /\ current_session_id = None
  /\ event_result = None

\* parse_sales_date(text) called on a phrase
ParseSalesDate(p, dp) ==
  /\ state = NewConversationState
  /\ parse_result = None
  /\ parse_result' =
       Some([text |-> p, result |-> parse_sales_date(p, now_weekday, dp)])
  /\ UNCHANGED graph_vars
  /\ UNCHANGED session_vars
  /\ UNCHANGED server_vars
  /\ UNCHANGED <<voice_vars, event_result>>

\* extract_datetime_from_utterance(state) with the utterance u
ExtractDatetime(u, dp) ==
  /\ parse_result = None
  /\ state' = [state EXCEPT
                 !.current_user_utterance = Some(u),
                 !.slots = extract_datetime(u, state.slots, now_weekday, dp)]
  /\ UNCHANGED <<pc, now_weekday, calendar_calls, turn_start, confirmed_by,
                 planned>>
  /\ UNCHANGED session_vars
  /\ UNCHANGED resolver_vars
  /\ UNCHANGED server_vars
  /\ UNCHANGED <<voice_vars, event_result>>

NextDate ==
  \/ \E p \in DatePhrases, dp \in DateparserOutcomes : ParseSalesDate(p, dp)
  \/ \E u \in DateUtterances, dp \in DateparserOutcomes :
        ExtractDatetime(u, dp)

SpecDate == InitDate /\ [][NextDate]_vars

---------------------------------------------------------------------------
(* The server: app/main.py and the webhook call handle_turn from async     *)
(* endpoints.  handle_turn is synchronous and the endpoints do not await    *)
(* while it runs, so the event loop runs one call of it to its return       *)
(* before it starts the next.  A turn is taken in two steps, the reply      *)
(* (next_agent_reply, which writes the slots) and the rest (tools, history, *)
(* done), so that turns running at once would be seen.                      *)

MaxRequests == 2

\* what a turn in flight holds after next_agent_reply: the response, or the
\* apology of the except branch
TurnReply(session, u, po) ==
  IF po.kind = "raises"
  THEN [response |-> Reply("error", FALSE, <<>>, FALSE),
        slots |-> session.slots, raised |-> TRUE]
  ELSE [response |-> next_agent_reply(session, u, po).response,
        slots |-> next_agent_reply(session, u, po).slots, raised |-> FALSE]

InitServe ==
  /\ state = NewConversationState
  /\ pc = "idle"
  /\ now_weekday \in CallWeekdays
  /\ calendar_calls = <<>>
  /\ turn_start = None
  /\ confirmed_by = None
  /\ planned = None
  /\ entry_point = "handle_turn"
  /\ sessions = None
  /\ response = None
  /\ parse_result = None
  /\ arrivals = <<>>
  /\ in_flight = {}
  /\ begun = <<>>
  /\ returned = <<>>
  /\ current_session_id = None
  /\ event_result = None

\* a request with the utterance u reaches the server
Arrive(u) ==
  /\ Len(arrivals) < MaxRequests
  /\ arrivals' = Append(arrivals, u)
  /\ UNCHANGED <<in_flight, begun, returned>>
  /\ UNCHANGED <<graph_vars, session_vars, resolver_vars, voice_vars, event_result>>

\* a dispatch that hands each request to a worker thread as soon as it can
TurnBegin_in_threadpool(po) ==
  /\ Len(begun) < Len(arrivals)
  /\ LET id == Len(begun) + 1
         session == IF IsSet(sessions) THEN Val(sessions) ELSE NewSessionState
         r == TurnReply(session, arrivals[id], po)
     IN  /\ sessions' = Some([session EXCEPT !.slots = r.slots])
         /\ in_flight' = in_flight \cup
                           {[id |-> id, seen |-> session, reply |-> r]}
         /\ begun' = Append(begun, id)
  /\ UNCHANGED <<arrivals, returned, entry_point, response>>
  /\ UNCHANGED <<graph_vars, resolver_vars, voice_vars, event_result>>

\* the event loop, free, runs the endpoint of the oldest waiting request:
\* handle_turn finds or makes the session and calls next_agent_reply
TurnBegin(po) ==
  /\ in_flight = {}
  /\ Len(begun) < Len(arrivals)
  /\ LET id == Len(begun) + 1
         session == IF IsSet(sessions) THEN Val(sessions) ELSE NewSessionState
         r == TurnReply(session, arrivals[id], po)
     IN  /\ sessions' = Some([session EXCEPT !.slots = r.slots])
         /\ in_flight' = in_flight \cup
                           {[id |-> id, seen |-> session, reply |-> r]}
         /\ begun' = Append(begun, id)
  /\ UNCHANGED <<arrivals, returned, entry_point, response>>
  /\ UNCHANGED <<graph_vars, resolver_vars, voice_vars, event_result>>

\* the rest of handle_turn for the turn t: the tool calls, the history record,
\* done, and the return (the except branch records and returns the error)
TurnEnd(t, cal, crm) ==
  /\ t \in in_flight
  /\ LET r == t.reply.response
         tool_results ==
           IF t.reply.raised THEN <<[name |-> "", result |-> "error"]>>
           ELSE [i \in 1..Len(r.tool_calls) |->
                   _execute_tool_call(r.tool_calls[i], cal, crm)]
     IN  /\ sessions' =
              Some([Val(sessions) EXCEPT
                      !.history = Append(@, [agent |-> r.reply]),
                      !.done = IF r.final THEN TRUE ELSE @])
         /\ response' = Some([reply |-> r.reply,
                              tool_results |-> tool_results,
                              final |-> r.final])
  /\ in_flight' = in_flight \ {t}
  /\ returned' = Append(returned, t.id)
  /\ UNCHANGED <<arrivals, begun, entry_point>>
  /\ UNCHANGED <<graph_vars, resolver_vars, voice_vars, event_result>>

NextServe ==
  \/ \E u \in SessionUtterances : Arrive(u)
  \/ \E po \in ParseOutcomes : TurnBegin(po)
  \/ \E t \in in_flight, cal \in CalendarOutcomes, crm \in CrmOutcomes :
        TurnEnd(t, cal, crm)

SpecServe == InitServe /\ [][NextServe]_vars

---------------------------------------------------------------------------
(* voice_sales_agent.py: VoiceSalesAgent drives calls with one lead, whose *)
(* session id is "voice_call_<lead.id>"; the voice manager's listening and *)
(* speaking are left out (a failure of either ends the call).              *)

VoiceSessionId == "voice_call_lead"

InitVoice ==
  /\ state = NewConversationState
  /\ pc = "idle"
  /\ now_weekday \in CallWeekdays
  /\ calendar_calls = <<>>
  /\ turn_start = None
  /\ confirmed_by = None
  /\ planned = None
  /\ entry_point = "handle_turn"
  /\ sessions = None
  /\ response = None
  /\ parse_result = None
  /\ arrivals = <<>>
  /\ in_flight = {}
  /\ begun = <<>>
  /\ returned = <<>>
  /\ current_session_id = None
  /\ event_result = None

\* start_voice_call(lead): clear_session on the current session id when one
\* is set, then the first handle_turn with the empty utterance
StartVoiceCall(po, cal, crm) ==
  /\ LET cleared == IF IsSet(current_session_id) THEN None ELSE sessions
     IN  /\ TurnsOf(cleared) < MaxTurns
         /\ sessions' = handle_turn(cleared, {}, po, cal, crm).sessions
         /\ response' = handle_turn(cleared, {}, po, cal, crm).response
  /\ current_session_id' = Some(VoiceSessionId)
  /\ UNCHANGED <<entry_point, graph_vars, resolver_vars, server_vars>>
  /\ UNCHANGED event_result

\* continue_voice_conversation: handle_turn on what the lead said, and
\* end_voice_call when the response is final
ContinueVoiceConversation(u, po, cal, crm) ==
  /\ IsSet(current_session_id)
  /\ TurnsOf(sessions) < MaxTurns
  /\ sessions' = handle_turn(sessions, u, po, cal, crm).sessions
  /\ response' = handle_turn(sessions, u, po, cal, crm).response
  /\ current_session_id' =
       IF Val(response').final THEN None ELSE current_session_id
  /\ UNCHANGED <<entry_point, graph_vars, resolver_vars, server_vars>>
  /\ UNCHANGED event_result

\* end_voice_call on a call in progress (the lead was not heard, the reply
\* could not be spoken, or the call was interrupted)
EndVoiceCall ==
  /\ IsSet(current_session_id)
  /\ current_session_id' = None
  /\ UNCHANGED <<graph_vars, session_vars, resolver_vars, server_vars>>
  /\ UNCHANGED event_result

NextVoice ==
  \/ \E po \in ParseOutcomes, cal \in CalendarOutcomes, crm \in CrmOutcomes :
        StartVoiceCall(po, cal, crm)
  \/ \E u \in SessionUtterances, po \in ParseOutcomes,
        cal \in CalendarOutcomes, crm \in CrmOutcomes :
        ContinueVoiceConversation(u, po, cal, crm)
  \/ EndVoiceCall

SpecVoice == InitVoice /\ [][NextVoice]_vars

---------------------------------------------------------------------------
(* calendar.create_event called directly (agent/tools/calendar.py), on every
   kind of argument and every answer of the calendar service *)

\* the strings a caller passes as start_dt and end_dt: the isoformat() of a
\* datetime, or a text datetime.fromisoformat rejects
IsoTexts ==
  {[iso |-> FALSE, day |-> 0, hour |-> 0, minute |-> 0]}
    \cup {[iso |-> TRUE, day |-> d, hour |-> h, minute |-> 0] :
            d \in 1..2, h \in {9, 14, 23}}

\* create_event with datetime.fromisoformat ahead of the try block
create_event_parses_before_try(service, start_dt, end_dt, inserted) ==
  IF ~start_dt.iso \/ ~end_dt.iso
  THEN [raised |-> TRUE, created |-> FALSE, error |-> None, id |-> None,
        htmlLink |-> None, start |-> None]
  ELSE IF ~service
  THEN [raised |-> FALSE, created |-> FALSE,
        error |-> Some("Calendar service not available"), id |-> None,
        htmlLink |-> None, start |-> None]
  ELSE IF ~inserted
  THEN [raised |-> FALSE, created |-> FALSE, error |-> Some("str(e)"),
        id |-> None, htmlLink |-> None, start |-> None]
  ELSE [raised |-> FALSE, created |-> TRUE, error |-> None,
        id |-> Some("event id"), htmlLink |-> Some("event htmlLink"),
        start |-> Some(start_dt)]

\* create_event: service is whether get_calendar_service() gave a client,
\* inserted whether events().insert(...).execute() returned an event (it
\* raises otherwise).  The result is the returned dict; raised tells an
\* exception left the function instead
create_event(service, start_dt, end_dt, inserted) ==
  IF ~service
  THEN [raised |-> FALSE, created |-> FALSE,
        error |-> Some("Calendar service not available"), id |-> None,
        htmlLink |-> None, start |-> None]
  ELSE IF ~start_dt.iso \/ ~end_dt.iso \/ ~inserted
  THEN \* except Exception as e
       [raised |-> FALSE, created |-> FALSE, error |-> Some("str(e)"),
        id |-> None, htmlLink |-> None, start |-> None]
  ELSE [raised |-> FALSE, created |-> TRUE, error |-> None,
        id |-> Some("event id"), htmlLink |-> Some("event htmlLink"),
        start |-> Some(start_dt)]

InitCalendar ==
  /\ state = NewConversationState
  /\ pc = "idle"
  /\ now_weekday \in CallWeekdays
  /\ calendar_calls = <<>>
  /\ turn_start = None
  /\ confirmed_by = None
  /\ planned = None
  /\ entry_point = "create_event"
  /\ sessions = None
  /\ response = None
  /\ parse_result = None
  /\ arrivals = <<>>
  /\ in_flight = {}
  /\ begun = <<>>
  /\ returned = <<>>
  /\ current_session_id = None
  /\ event_result = None

CreateEvent(service, start_dt, end_dt, inserted) ==
  /\ event_result' =
       Some([service |-> service, start_dt |-> start_dt, end_dt |-> end_dt,
             inserted |-> inserted,
             result |-> create_event(service, start_dt, end_dt, inserted)])
  /\ UNCHANGED <<graph_vars, session_vars, resolver_vars, server_vars,
                 voice_vars>>

NextCalendar ==
  \E service \in BOOLEAN, start_dt \in IsoTexts, end_dt \in IsoTexts,
     inserted \in BOOLEAN :
     CreateEvent(service, start_dt, end_dt, inserted)

SpecCalendar == InitCalendar /\ [][NextCalendar]_vars

---------------------------------------------------------------------------
(* Properties *)

\* the conditions of the planner's slot rules, read off a state
DatetimeUnconfirmed(st) ==
  IsSet(st.slots.datetime) /\ ~Truthy(st.slots.confirmation)

DateAndTimeUnresolved(st) ==
  IsSet(st.slots.date_slot) /\ IsSet(st.slots.time_slot)
    /\ ~IsSet(st.slots.datetime)

DateWithoutTime(st) == IsSet(st.slots.date_slot) /\ ~IsSet(st.slots.time_slot)

SuggestedUnresolved(st) ==
  IsSet(st.slots.suggested_time) /\ ~IsSet(st.slots.datetime)

\* C1: for every state given to decide_next_action in which slots.datetime is
\* set and slots.confirmation is absent or false, the result is
\* confirm_meeting, whatever intent, phase, tone and utterance are.
C1_DatetimeUnconfirmedPlansConfirm ==
  (pc = "planned" /\ DatetimeUnconfirmed(state))
    => planned = Some("confirm_meeting")

\* C1 case: the rule decides against the intent table (intent not_interested,
\* phase graceful_exit, a "not interested" utterance)
C1_Witness ==
  /\ pc = "planned"
  /\ DatetimeUnconfirmed(state)
  /\ state.slots.confirmation = Some(FALSE)
  /\ state.intent = Some("not_interested")
  /\ state.phase = "graceful_exit"
  /\ state.tone = Some("shut_down")
  /\ UtteranceOf(state) = {"not interested"}
  /\ planned = Some("confirm_meeting")

\* C10: when rule 1 does not apply, decide_next_action returns confirm_meeting
\* if date_slot and time_slot are set and datetime is unset; otherwise
\* propose_specific_time if date_slot is set and time_slot unset; otherwise
\* propose_specific_time if suggested_time is set and datetime unset; and
\* the intent table's answer only when none of these rules matches.
C10_SlotRulesInOrder ==
  (pc = "planned" /\ ~DatetimeUnconfirmed(state))
    => planned = Some(IF DateAndTimeUnresolved(state) THEN "confirm_meeting"
                      ELSE IF DateWithoutTime(state) THEN "propose_specific_time"
                      ELSE IF SuggestedUnresolved(state)
                      THEN "propose_specific_time"
                      ELSE IntentToAction(state))

\* C10 case: rules 2 and 4 both match and rule 2 wins over rule 4 and over
\* the intent table (which says graceful_exit)
C10_Witness ==
  /\ pc = "planned"
  /\ ~DatetimeUnconfirmed(state)
  /\ DateAndTimeUnresolved(state)
  /\ SuggestedUnresolved(state)
  /\ IntentToAction(state) = "graceful_exit"
  /\ planned = Some("confirm_meeting")

\* the path nodes of the graph, as values of pc
PathNodes ==
  {"schedule_path", "send_info_path", "not_interested_path",
   "provide_info_path", "provide_more_info_path", "answer_question_path"}

\* one of the planner's slot rules (priorities 1 to 4) applies
SlotRuleApplies(st) ==
  \/ DatetimeUnconfirmed(st)
  \/ DateAndTimeUnresolved(st)
  \/ DateWithoutTime(st)
  \/ SuggestedUnresolved(st)

C3_GracefulExitEndsDone ==
  /\ (pc \in PathNodes \cup {"no_edge"} /\ planned = Some("graceful_exit"))
       => pc = "not_interested_path"
  /\ (pc = "end" /\ planned = Some("graceful_exit")) => state.done

\* C3 case: a first turn planned as graceful_exit has run not_interested_path
\* (its closing line is the reply) and ended with done = true
C3_Witness ==
  /\ pc = "end"
  /\ planned = Some("graceful_exit")
  /\ state.phase = "graceful_exit"
  /\ Len(state.conversation_history) = 1
  /\ state.last_agent_reply = Some(<<"reply", "graceful_exit", "thanks">>)
  /\ state.done

\* the fields of the conversation state C4 compares
BusinessState(st) ==
  [phase |-> st.phase, intent |-> st.intent, slots |-> st.slots,
   conversation_history |-> st.conversation_history, done |-> st.done]

\* C4: once done = true, a further turn with the same confirmation utterance
\* (the utterance whose confirmation word confirmed the meeting) leaves
\* phase, intent, every slot, conversation_history and done as they were
\* before the turn.
C4_RepeatedConfirmationIsNoOp ==
  (pc = "end" /\ IsSet(turn_start) /\ Val(turn_start).done
     /\ Truthy(Val(turn_start).slots.confirmation)
     /\ IsSet(confirmed_by) /\ state.current_user_utterance = confirmed_by)
    => BusinessState(state) = BusinessState(Val(turn_start))

\* C5: done is monotonic: no step of a turn (planner step, path node,
\* turn-loop step of either entry point) takes done from true back to
\* false on a conversation state or on a session that is kept (not cleared
\* or replaced by a new one).
C5_DoneMonotonic ==
  [][/\ state.done => state'.done
     /\ (IsSet(sessions) /\ Val(sessions).done
           /\ IsSet(sessions') /\ Val(sessions').history # <<>>)
          => Val(sessions').done]_vars

\* C5 case: a turn started on a finished conversation has run the planner
\* and a path node that is not a finalizing one, and done is still true
C5_Witness ==
  /\ pc = "end"
  /\ IsSet(turn_start)
  /\ Val(turn_start).done
  /\ planned = Some("provide_info")
  /\ state.slots.info_provided
  /\ state.done

\* C6: in every reachable state slots.confirmation = true implies that
\* slots.datetime is set.
C6_ConfirmationImpliesDatetime ==
  Truthy(state.slots.confirmation) => IsSet(state.slots.datetime)

\* C6 case: the propose_specific_time branch has just written datetime and
\* confirmation together, starting from a state that had neither
C6_Witness ==
  /\ pc = "end"
  /\ state.phase = "propose_specific_time"
  /\ Truthy(state.slots.confirmation)
  /\ IsSet(state.slots.datetime)
  /\ ~IsSet(state.slots.time_slot)
  /\ ~state.done

\* the utterance of the turn in progress has a confirmation word
Confirmed(st) == AnyIn(UtteranceOf(st), ConfirmationWords)

\* C7: in phase confirm_meeting, schedule_path ends with confirmation = true
\* and done = true when the utterance has a confirmation word and datetime
\* is set, whatever calendar.create_event does (created, not created,
\* raises); otherwise it leaves slots and done unchanged.
C7_ConfirmMeetingFinalizes ==
  [][(pc = "schedule_path" /\ state.phase = "confirm_meeting")
       => IF Confirmed(state) /\ IsSet(state.slots.datetime)
          THEN Truthy(state'.slots.confirmation) /\ state'.done
          ELSE state'.slots = state.slots /\ state'.done = state.done]_vars

\* C7 case: the confirming turn ended done although create_event raised
C7_Witness ==
  /\ pc = "end"
  /\ state.phase = "confirm_meeting"
  /\ Confirmed(state)
  /\ Truthy(state.slots.confirmation)
  /\ state.done
  /\ Len(calendar_calls) = 1
  /\ calendar_calls[1].outcome = "raises"
  /\ state.last_agent_reply = Some(<<"confirmed", "no_invite">>)

\* C8: every turn in which schedule_path finalizes a meeting (done becomes
\* true for a confirmed datetime) issues exactly one calendar.create_event
\* call, with that datetime as its start, whatever hour (0 to 23) the
\* datetime has.
C8_FinalizeIssuesOneCreateEvent ==
  [][(pc = "schedule_path" /\ ~state.done /\ state'.done)
       => /\ Len(calendar_calls') = Len(calendar_calls) + 1
          /\ calendar_calls'[Len(calendar_calls')].start
               = Val(state'.slots.datetime)]_vars

\* C9: whenever schedule_path returns, in whichever phase it ran, if
\* datetime is set and the utterance had a confirmation word or confirmation
\* was already true, then done = true.
C9_ConfirmedDatetimeReturnsDone ==
  [][(pc = "schedule_path" /\ pc' = "end"
        /\ IsSet(state'.slots.datetime)
        /\ (Confirmed(state) \/ Truthy(state.slots.confirmation)))
       => state'.done]_vars

\* the utterance tests of the intent table, read off a state
HasSchedulingPhrase(st) ==
  AnyIn(UtteranceOf(st), ExplicitMeetingPhrases \cup ExplicitSchedulingPhrases)

AsksForMore(st) == AnyIn(UtteranceOf(st), AskingForMorePhrases)

IsIdentityQuestion(st) == AnyIn(UtteranceOf(st), IntroQuestionPhrases)

C12_PlannerIgnoresToneAndConfidence ==
  [][pc = "plan"
       => /\ state' = state
          /\ \A tn \in PlanTones :
               planned' = Some(decide_next_action(
                                 [state EXCEPT !.tone = tn.tone,
                                               !.tone_confidence =
                                                  tn.tone_confidence]))]_vars

\* C12 case: the planner has answered propose_meeting for a lead whose tone
\* is shut_down with high confidence, by the intent table alone
C12_Witness ==
  /\ pc = "planned"
  /\ ~SlotRuleApplies(state)
  /\ state.tone = Some("shut_down")
  /\ state.tone_confidence = Some(90)
  /\ state.intent = Some("interested")
  /\ state.slots.info_provided
  /\ planned = Some("propose_meeting")

\* C13: within a turn, phase is written only by the planner step (phase is
\* the planner's next_action for the state after classification and
\* extraction) and by send_info_path (phase becomes propose_meeting, and
\* only when channel_pref is resolved); schedule_path, not_interested_path,
\* provide_info_path, provide_more_info_path, answer_question_path and
\* close_out, and the turn loop around the graph, leave phase unchanged.
C13_PhaseWrittenByPlannerAndSendInfo ==
  [][/\ pc = "bridge_and_nudge"
          => state'.phase
               = decide_next_action([state' EXCEPT !.phase = state.phase])
     /\ pc = "send_info_path"
          => state'.phase = IF IsSet(state'.slots.channel_pref)
                            THEN "propose_meeting" ELSE state.phase
     /\ pc \in (PathNodes \ {"send_info_path"}) \cup {"idle", "end"}
          => state'.phase = state.phase]_vars

\* C13 case: a turn planned as ask_channel_pref has ended in phase
\* propose_meeting, written by send_info_path after it resolved the channel
C13_Witness ==
  /\ pc = "end"
  /\ planned = Some("ask_channel_pref")
  /\ state.phase = "propose_meeting"
  /\ state.slots.channel_pref = Some("email")
  /\ state.slots.info_sent

\* C14: at the routing step of every turn, phase is one of the eleven keys
\* of the routing table (never intro or another value), and exactly one path
\* node runs, the one the table assigns to that phase (confirm_meeting,
\* propose_meeting, reschedule, clarify_time, propose_specific_time and
\* ask_for_clarification to schedule_path; ask_channel_pref to
\* send_info_path; graceful_exit to not_interested_path; provide_info,
\* provide_more_info and answer_question to their own nodes), after the
\* planner's next_action was written to phase and before close_out ends the
\* graph.
C14_OnePathNodePerTurn ==
  [][LET schedule_phases ==
           {"confirm_meeting", "propose_meeting", "reschedule",
            "clarify_time", "propose_specific_time", "ask_for_clarification"}
         own_node_phases ==
           {"provide_info", "provide_more_info", "answer_question"}
         keys == schedule_phases \cup own_node_phases
                   \cup {"ask_channel_pref", "graceful_exit"}
         node(ph) == IF ph \in schedule_phases THEN "schedule_path"
                     ELSE IF ph = "ask_channel_pref" THEN "send_info_path"
                     ELSE IF ph = "graceful_exit" THEN "not_interested_path"
                     ELSE IF ph = "provide_info" THEN "provide_info_path"
                     ELSE IF ph = "provide_more_info"
                     THEN "provide_more_info_path"
                     ELSE "answer_question_path"
     IN  /\ pc = "bridge_and_nudge"
              => /\ Cardinality(keys) = 11
                 /\ state'.phase \in keys
                 /\ planned' = Some(state'.phase)
                 /\ pc' = node(state'.phase)
         /\ pc \in PathNodes
              => (IsSet(planned) /\ pc = node(Val(planned)) /\ pc' = "end")
         /\ pc' \in PathNodes => pc = "bridge_and_nudge"]_vars

\* C14 case: an unclear utterance was planned as ask_for_clarification and
\* the turn is about to run schedule_path
C14_Witness ==
  /\ pc = "schedule_path"
  /\ state.phase = "ask_for_clarification"
  /\ state.intent = Some("unclear")
  /\ planned = Some("ask_for_clarification")

NamesChannel(u) == Contains(u, "email") \/ Contains(u, "text")

\* the turn in progress follows a turn that was planned as ask_channel_pref
\* and, channel_pref being unset, ended in that phase
FollowsOpenChannelQuestion(st) ==
  /\ Len(st.conversation_history) >= 2
  /\ st.conversation_history[Len(st.conversation_history) - 1].phase
       = "ask_channel_pref"
  /\ ~IsSet(st.slots.channel_pref)

\* C17: after a turn that ended in phase ask_channel_pref with channel_pref
\* unset, the next turn whose utterance names a channel (email or text) ends
\* with channel_pref set to that channel, phase = propose_meeting and
\* done = false, whatever intent the classifier assigns to that second
\* utterance.
C17_ChannelAnswerIsTaken ==
  [][(pc \in PathNodes /\ FollowsOpenChannelQuestion(state)
        /\ NamesChannel(UtteranceOf(state)))
       => /\ state'.slots.channel_pref
               = Some(IF Contains(UtteranceOf(state), "email")
                      THEN "email" ELSE "sms")
          /\ state'.phase = "propose_meeting"
          /\ ~state'.done]_vars

\* the utterance of the turn in progress has a rejection word
Rejected(st) == AnyIn(UtteranceOf(st), RejectionWords)

\* C18: in phase propose_specific_time, schedule_path does the following: if
\* the utterance has a confirmation word and the resolver resolves
\* suggested_time, datetime becomes that result and confirmation = true; if
\* the resolver returns nothing (or raises), datetime and confirmation are
\* unchanged; if there is no confirmation word but a rejection word, slot
\* extraction is re-run on the utterance; otherwise the state is unchanged.
\* (dp is what the external dateparser answers in this step.)
C18_ProposeSpecificTime ==
  [][(pc = "schedule_path" /\ state.phase = "propose_specific_time")
       => \E dp \in DateparserOutcomes :
            LET resolved == IF IsSet(state.slots.suggested_time)
                            THEN parse_sales_date(Val(state.slots.suggested_time),
                                                  now_weekday, dp)
                            ELSE None
            IN  IF Confirmed(state)
                THEN IF IsSet(resolved)
                     THEN state' = [state EXCEPT
                                      !.slots.datetime = resolved,
                                      !.slots.confirmation = Some(TRUE)]
                     ELSE state' = state
                ELSE IF Rejected(state)
                THEN state' = [state EXCEPT !.slots =
                                 extract_datetime(UtteranceOf(state),
                                                  state.slots, now_weekday, dp)]
                ELSE state' = state]_vars

\* C18 case: the lead said yes to "later today at 4pm", the resolver returned
\* nothing, and the turn ended with datetime and confirmation still unset
C18_Witness ==
  /\ pc = "end"
  /\ state.phase = "propose_specific_time"
  /\ Confirmed(state)
  /\ state.slots.suggested_time = Some(Phrase("later", "today", TRUE, "4pm"))
  /\ ~IsSet(state.slots.datetime)
  /\ ~IsSet(state.slots.confirmation)
  /\ ~state.done

\* state.slots.get("questions_asked", 0)
QuestionsAsked(st) ==
  IF IsSet(st.slots.questions_asked) THEN Val(st.slots.questions_asked) ELSE 0

\* the number of turns of the conversation that were routed to
\* answer_question_path (the turns whose history record has that phase)
TurnsRoutedToAnswerQuestion(st) ==
  Cardinality({i \in 1..Len(st.conversation_history) :
                 st.conversation_history[i].phase = "answer_question"})

\* C19: each execution of answer_question_path increases questions_asked by
\* exactly 1 (from 0 when absent) and sets suggest_meeting_after_answer
\* exactly when the count before the increment is at least 1; so after any
\* sequence of turns questions_asked is the number of turns routed to
\* answer_question_path (less the one whose node is about to run), and
\* suggest_meeting_after_answer is set if and only if questions_asked is at
\* least 2.
C19_QuestionsCounted ==
  /\ [](/\ QuestionsAsked(state)
             = TurnsRoutedToAnswerQuestion(state)
                 - (IF pc = "answer_question_path" THEN 1 ELSE 0)
        /\ state.slots.suggest_meeting_after_answer
             <=> QuestionsAsked(state) >= 2)
  /\ [][pc = "answer_question_path"
          => /\ state'.slots.questions_asked = Some(QuestionsAsked(state) + 1)
             /\ state'.slots.suggest_meeting_after_answer
                  = (state.slots.suggest_meeting_after_answer
                       \/ QuestionsAsked(state) >= 1)]_vars

\* C19 case: the second question of a conversation has been answered: the
\* count is 2 and the suggestion flag has just been set
C19_Witness ==
  /\ pc = "end"
  /\ planned = Some("answer_question")
  /\ state.slots.questions_asked = Some(2)
  /\ TurnsRoutedToAnswerQuestion(state) = 2
  /\ state.slots.suggest_meeting_after_answer

\* the slots that slot extraction fills
ExtractionSlots == {"date_slot", "time_slot", "datetime", "suggested_time"}

\* C20: slot extraction is additive: extract_datetime never removes or nulls
\* a slot, so over any sequence of turns each of date_slot, time_slot,
\* datetime and suggested_time, once set, stays set (its value may be
\* overwritten by a later utterance, but it is never cleared); the step
\* that runs the extraction clears no other slot either.
C20_ExtractionIsAdditive ==
  [][/\ \A k \in ExtractionSlots :
          IsSet(state.slots[k]) => IsSet(state'.slots[k])
     /\ pc = "bridge_and_nudge"
          => /\ \A k \in {"channel_pref", "confirmation", "questions_asked"} :
                  state'.slots[k] = state.slots[k]
             /\ \A k \in {"info_provided", "more_info_provided", "info_sent",
                          "suggest_meeting_after_answer"} :
                  state'.slots[k] = state.slots[k]]_vars

\* C20 case: the lead said "tomorrow" and then "today 2pm": date_slot was
\* overwritten, and the suggestion made for tomorrow is still there
C20_Witness ==
  /\ pc = "end"
  /\ Len(state.conversation_history) = 2
  /\ state.conversation_history[1].phase = "propose_specific_time"
  /\ state.slots.date_slot = Some("today")
  /\ state.slots.time_slot = Some("2pm")
  /\ state.slots.suggested_time = Some(Phrase("", "tomorrow", TRUE, "2pm"))

\* the phrase "<date_slot> <time_slot>" that extraction hands to the resolver
CombinedPhrase(slots) ==
  Phrase("", Val(slots.date_slot), FALSE, Val(slots.time_slot))

\* C21: slots.datetime is written only (a) by slot extraction when date_slot
\* and time_slot are both set and the resolver succeeds on their
\* concatenation, or (b) by a confirmed propose_specific_time turn when the
\* resolver succeeds on the phrase suggested_time; no other step of a turn
\* changes datetime, and a resolver failure never writes it.  (dp is what
\* the external dateparser answers in the step.)
C21_DatetimeWriters ==
  [][state'.slots.datetime # state.slots.datetime
       => \E dp \in DateparserOutcomes :
            \/ /\ pc = "bridge_and_nudge"
                  \/ (pc = "schedule_path"
                        /\ state.phase = "propose_specific_time"
                        /\ ~Confirmed(state) /\ Rejected(state))
               /\ IsSet(state'.slots.date_slot)
               /\ IsSet(state'.slots.time_slot)
               /\ LET r == parse_sales_date(CombinedPhrase(state'.slots),
                                            now_weekday, dp)
                  IN  IsSet(r) /\ state'.slots.datetime = r
            \/ /\ pc = "schedule_path"
               /\ state.phase = "propose_specific_time"
               /\ Confirmed(state)
               /\ IsSet(state.slots.suggested_time)
               /\ LET r == parse_sales_date(Val(state.slots.suggested_time),
                                            now_weekday, dp)
                  IN  IsSet(r) /\ state'.slots.datetime = r]_vars

\* C21 case: "tomorrow" in the first turn set date_slot alone, "2pm" in the
\* second completed the pair, and extraction wrote the resolved datetime
C21_Witness ==
  /\ pc = "end"
  /\ Len(state.conversation_history) = 2
  /\ state.conversation_history[1].phase = "propose_specific_time"
  /\ state.slots.date_slot = Some("tomorrow")
  /\ state.slots.time_slot = Some("2pm")
  /\ state.slots.datetime = Some([day |-> 1, hour |-> 14, minute |-> 0])


\* what the external dateparser answers when it resolves nothing
DateparserNone == [kind |-> "none", day |-> 0]

\* the resolver's own patterns resolve the phrase, whatever dateparser does
PatternResolves(p, now_wd) == IsSet(parse_sales_date(p, now_wd, DateparserNone))

\* C22: whenever date_slot and time_slot are both set after extraction and
\* the resolver succeeds on "<date_slot> <time_slot>", datetime is the
\* resolver's result for that phrase (the step's own call); and when the
\* resolver's patterns resolve the phrase, datetime is its result for the
\* phrase in every state with these two slot values, whether they came
\* from one utterance or from several and however often the combination
\* was repeated
C22_CombinationIsResolverResult ==
  /\ [](IsSet(state.slots.date_slot) /\ IsSet(state.slots.time_slot)
          /\ PatternResolves(CombinedPhrase(state.slots), now_weekday)
        => state.slots.datetime
             = parse_sales_date(CombinedPhrase(state.slots), now_weekday,
                                DateparserNone))
  /\ [][\A dp \in DateparserOutcomes :
          (state'.slots
             = extract_datetime(UtteranceOf(state'), state.slots,
                                now_weekday, dp)
           /\ IsSet(state'.slots.date_slot) /\ IsSet(state'.slots.time_slot)
           /\ IsSet(parse_sales_date(CombinedPhrase(state'.slots),
                                     now_weekday, dp)))
          => state'.slots.datetime
               = parse_sales_date(CombinedPhrase(state'.slots),
                                  now_weekday, dp)]_vars

\* C22 case: "friday 2pm" was resolved, then a later utterance named monday
\* alone: the pair monday + 2pm was combined again and datetime follows it
C22_Witness ==
  /\ state.slots.date_slot = Some("monday")
  /\ state.slots.time_slot = Some("2pm")
  /\ UtteranceOf(state) = {"monday"}
  /\ now_weekday = 5
  /\ state.slots.datetime = Some([day |-> 2, hour |-> 14, minute |-> 0])

\* the days between today and the date a resolver result falls on
DaysAhead(r) == Val(r).day

C24_NextWeekIsAWeekLater ==
  /\ IsSet(parse_result)
       /\ Val(parse_result).text.pre = "next week"
       /\ IsWeekday(Val(parse_result).text.date)
       /\ Val(parse_result).text.time = "2pm"
     => /\ IsSet(Val(parse_result).result)
        /\ DaysAhead(Val(parse_result).result) \in 8..14
        /\ DaysAhead(Val(parse_result).result)
             = _get_days_ahead(Val(parse_result).text.date, now_weekday) + 7
  /\ \A w \in UtteranceWeekdays :
       UtteranceOf(state) = {"next week", w, "2pm"}
         /\ IsSet(state.slots.datetime)
       => DaysAhead(state.slots.datetime) \in 8..14


\* C25: conversation_history is append-only: a turn appends exactly one
\* record at the end (in its bridge_and_nudge step, which every turn runs
\* once), no other step changes the history, no existing record is modified,
\* reordered or removed, and the k-th record carries turn number k
C25_HistoryAppendOnly ==
  /\ [](\A k \in 1..Len(state.conversation_history) :
          state.conversation_history[k].turn = k)
  /\ [][LET history == state.conversation_history
            history_after == state'.conversation_history
        IN  /\ (pc = "bridge_and_nudge")
                 => /\ Len(history_after) = Len(history) + 1
                    /\ SubSeq(history_after, 1, Len(history)) = history
                    /\ history_after[Len(history_after)].turn
                         = Len(history) + 1
            /\ (pc # "bridge_and_nudge") => history_after = history
            /\ (pc' = "bridge_and_nudge" /\ pc # pc') => pc = "idle"
            /\ (pc = "idle" /\ pc' # pc) => pc' = "bridge_and_nudge"]_vars

\* C25 case: two turns have completed and left the records 1 and 2
C25_Witness ==
  /\ pc = "idle"
  /\ entry_point = "run_conversation_turn"
  /\ Len(state.conversation_history) = 2
  /\ state.conversation_history[1].turn = 1
  /\ state.conversation_history[2].turn = 2

\* the last record of the history
LastRecord(st) == st.conversation_history[Len(st.conversation_history)]

\* C26: the history record of a turn is appended after the path node has
\* executed: in the state returned for a turn the last record's agent reply
\* and phase are the state's last_agent_reply and phase
C26_RecordMatchesReturnedState ==
  pc = "idle" /\ Len(state.conversation_history) > 0
  => /\ Some(LastRecord(state).agent) = state.last_agent_reply
     /\ LastRecord(state).phase = state.phase


\* nlu.parse raises in the turn
ParseRaises == [kind |-> "raises", intent |-> "unknown", parsed_datetime |-> None]

C28_ResolverFailurePlansConfirm ==
  [][\A intent \in Intents, dp \in DateparserOutcomes :
       (BridgeAndNudge(intent, dp)
          /\ IsSet(state'.slots.date_slot) /\ IsSet(state'.slots.time_slot)
          /\ ~IsSet(parse_sales_date(CombinedPhrase(state'.slots),
                                     now_weekday, dp)))
       => /\ state'.slots.datetime = state.slots.datetime
          /\ planned' = Some("confirm_meeting")
          /\ state'.phase = "confirm_meeting"]_vars


\* C29: when a calendar or CRM tool call fails (returns an error or raises)
\* during a turn, the turn still completes, a call that was being finalized
\* is still finalized, and the failure is recorded in that turn's
\* tool_results.  In handle_turn every tool call of the reply has its
\* answer, failure included, in the returned tool_results, and final and
\* done are what the reply asked for; in the graph a failed create_event of
\* schedule_path still ends the turn with done and confirmation set, and
\* the failure is in the tool_results returned for the turn.
C29_ToolFailureIsRecorded ==
  /\ [][(entry_point = "handle_turn") =>
        \A u \in SessionUtterances, po \in ParseOutcomes,
           cal \in CalendarOutcomes, crm \in CrmOutcomes :
          (po.kind # "raises" /\ HandleTurn(u, po, cal, crm))
          => LET session == IF IsSet(sessions) THEN Val(sessions)
                            ELSE NewSessionState
                 r == next_agent_reply(session, u, po).response
                 tool_results == Val(response').tool_results
             IN  /\ Len(tool_results) = Len(r.tool_calls)
                 /\ \A i \in 1..Len(r.tool_calls) :
                      /\ tool_results[i].name = r.tool_calls[i]
                      /\ tool_results[i].result
                           = IF r.tool_calls[i] = "calendar.create_event"
                             THEN cal ELSE crm
                 /\ Val(response').final = r.final
                 /\ r.final => Val(sessions').done]_vars
  /\ [][(pc = "schedule_path"
           /\ Len(calendar_calls') > Len(calendar_calls)
           /\ calendar_calls'[Len(calendar_calls')].outcome # "created")
        => /\ pc' = "end"
           /\ state'.done
           /\ Truthy(state'.slots.confirmation)]_vars
  /\ [](\A i \in 1..Len(calendar_calls) :
          calendar_calls[i].outcome # "created"
          => /\ IsSet(response)
             /\ \E j \in 1..Len(Val(response).tool_results) :
                  Val(response).tool_results[j]
                    = [name |-> "calendar.create_event",
                       result |-> calendar_calls[i].outcome])


\* the first n turn ids in arrival order
InOrder(n) == [k \in 1..n |-> k]

C31_NewCallStartsFresh ==
  /\ [][\A po \in ParseOutcomes, cal \in CalendarOutcomes, crm \in CrmOutcomes :
          (po.kind # "raises" /\ StartVoiceCall(po, cal, crm))
          => /\ Val(response').reply.kind = "greeting"
             /\ Len(Val(sessions').history) = 1
             /\ ~Val(sessions').done]_vars
  /\ [][(IsSet(current_session_id) /\ ~IsSet(current_session_id'))
          => ~IsSet(sessions')]_vars

\* C32: calendar.create_event never raises.  With the service unavailable,
\* with a start or end that is not an ISO datetime, or with a failed API
\* call it returns created=false and an error; created=true comes only from
\* a successful insert, together with the event's id and htmlLink.
C32_CreateEventNeverRaises ==
  IsSet(event_result) =>
    LET c == Val(event_result)
        r == c.result
        failed == ~c.service \/ ~c.start_dt.iso \/ ~c.end_dt.iso \/ ~c.inserted
    IN  /\ ~r.raised
        /\ failed => (~r.created /\ IsSet(r.error))
        /\ r.created <=> ~failed
        /\ r.created => (IsSet(r.id) /\ IsSet(r.htmlLink) /\ ~IsSet(r.error))

\* C32 case: the service is there and the insert would succeed, but the start
\* is not an ISO datetime; the call gave back created=false with an error
C32_Witness ==
  /\ IsSet(event_result)
  /\ Val(event_result).service
  /\ Val(event_result).inserted
  /\ ~Val(event_result).start_dt.iso
  /\ ~Val(event_result).result.created
  /\ IsSet(Val(event_result).result.error)

\* C33: a time is confirmed only after it was put to the lead on an earlier
\* turn.  A turn in which schedule_path sets confirmation=true or books the
\* meeting began with the time already in the state: datetime for phase
\* confirm_meeting, suggested_time for phase propose_specific_time.  (The
\* step is the entry node's, from the state the turn began with to the state
\* handed to schedule_path; r is what schedule_path makes of it.)
C33_ConfirmedTimeWasProposedEarlier ==
  [][(pc = "bridge_and_nudge" /\ pc' = "schedule_path") =>
       \A dp \in DateparserOutcomes, cal \in CalendarOutcomes :
          LET r == schedule_path_node(state', now_weekday, dp, cal)
          IN  (\/ Truthy(r.state.slots.confirmation)
                    /\ ~Truthy(state.slots.confirmation)
               \/ r.state.done /\ ~state.done)
              => /\ (state'.phase = "confirm_meeting")
                      => IsSet(state.slots.datetime)
                 /\ (state'.phase = "propose_specific_time")
                      => IsSet(state.slots.suggested_time)]_vars


\* C34: in the handle_turn flow the turn that proposes the demo time and asks
\* "Does that work for you?" issues no calendar.create_event call: the call
\* is made only after the lead has confirmed, so a lead who then declines
\* ends the call without a calendar event.
C34_DemoBookedAfterConfirmation ==
  (IsSet(response) /\ Val(response).reply.kind = "demo_proposed") =>
    \A i \in 1..Len(Val(response).tool_results) :
       Val(response).tool_results[i].name # "calendar.create_event"


\* C35: in the turn in which done first becomes true on a conversation state,
\* either the turn's phase is graceful_exit, or confirmation is true and
\* datetime is set at the end of that turn; a call is closed for no other
\* reason.
C35_ClosedByExitOrConfirmedTime ==
  [][(~state.done /\ state'.done)
       => \/ state'.phase = "graceful_exit"
          \/ Truthy(state'.slots.confirmation) /\ IsSet(state'.slots.datetime)]_vars

\* C35 case: a turn planned as confirm_meeting has closed the call with the
\* time confirmed
C35_Witness ==
  /\ pc = "end"
  /\ state.done
  /\ state.phase = "confirm_meeting"
  /\ Truthy(state.slots.confirmation)
  /\ IsSet(state.slots.datetime)
  /\ Len(calendar_calls) = 1


\* C36: over any sequence of turns on one conversation state, turns after
\* done = true included, schedule_path invokes calendar.create_event at most
\* once: a conversation never books two calendar events.
C36_AtMostOneCreateEvent == Len(calendar_calls) <= 1

\* C36 case: a meeting was booked, and a later turn on the finished
\* conversation went through schedule_path again without a second call
C36_Witness ==
  /\ pc = "end"
  /\ IsSet(turn_start)
  /\ Val(turn_start).done
  /\ Truthy(Val(turn_start).slots.confirmation)
  /\ planned \in {Some("propose_meeting"), Some("reschedule")}
  /\ Len(calendar_calls) = 1


\* C37: once the lead has accepted a system-proposed time (a
\* propose_specific_time turn left datetime set, confirmation = true and
\* done = false; no other turn leaves such a state), every later turn that is
\* routed to schedule_path ends with done = true.
C37_AcceptedProposalIsFinalized ==
  [][(/\ pc = "schedule_path"
      /\ pc' = "end"
      /\ Len(state.conversation_history) >= 2
      /\ IsSet(state.slots.datetime)
      /\ Truthy(state.slots.confirmation)
      /\ ~state.done)
       => state'.done]_vars


\* C38: whenever date_slot, time_slot and datetime are all set at the end of
\* a turn, datetime is the resolver's result for the current pair
\* "<date_slot> <time_slot>" (for one of the answers the external dateparser
\* can give): a datetime resolved from earlier slot values does not survive a
\* later change of date_slot or time_slot.
C38_DatetimeFollowsSlots ==
  (/\ pc = "end"
   /\ IsSet(state.slots.date_slot)
   /\ IsSet(state.slots.time_slot)
   /\ IsSet(state.slots.datetime))
    => \E dp \in DateparserOutcomes :
          state.slots.datetime
            = parse_sales_date(CombinedPhrase(state.slots), now_weekday, dp)

\* C39: in schedule_path a confirmation word takes precedence over a
\* rejection word.  When the utterance has both, phase confirm_meeting with
\* datetime set finalizes the meeting, and phase propose_specific_time
\* resolves the suggested time and confirms it (leaving the state as it is
\* when the resolver returns nothing); the re-run of slot extraction that a
\* rejection starts does not take place.
C39_ConfirmationBeatsRejection ==
  [][(pc = "schedule_path" /\ Confirmed(state) /\ Rejected(state))
       => /\ (state.phase = "confirm_meeting" /\ IsSet(state.slots.datetime))
               => /\ state'.done
                  /\ Truthy(state'.slots.confirmation)
                  /\ state'.slots.datetime = state.slots.datetime
          /\ (state.phase = "propose_specific_time")
               => \E dp \in DateparserOutcomes :
                     LET parsed ==
                           IF IsSet(state.slots.suggested_time)
                           THEN parse_sales_date(
                                  Val(state.slots.suggested_time),
                                  now_weekday, dp)
                           ELSE None
                     IN  IF IsSet(parsed)
                         THEN state' = [state EXCEPT
                                          !.slots.datetime = parsed,
                                          !.slots.confirmation = Some(TRUE)]
                         ELSE state' = state]_vars

\* C39 case: the agent proposed a time for tomorrow and the lead's answer
\* had both "yes" and "no": the suggested time was resolved and confirmed
C39_Witness ==
  /\ pc = "end"
  /\ UtteranceOf(state) = {"yes", "no"}
  /\ state.phase = "propose_specific_time"
  /\ state.slots.date_slot = Some("tomorrow")
  /\ ~IsSet(state.slots.time_slot)
  /\ IsSet(state.slots.datetime)
  /\ Truthy(state.slots.confirmation)


\* C40: extract_datetime is idempotent for a fixed utterance, reference time
\* and resolver: applied a second time to the slots it produced (same
\* utterance, same weekday, same answer of the external dateparser) it
\* leaves every slot unchanged, so the re-extraction that schedule_path
\* performs on a rejection, on the utterance the turn already extracted from,
\* changes nothing.
C40_ExtractionIsIdempotent ==
  \A u \in DateUtterances, dp \in DateparserOutcomes :
     LET once == extract_datetime(u, state.slots, now_weekday, dp)
     IN  extract_datetime(u, once, now_weekday, dp) = once

\* C40 case: "2pm" was heard earlier and the utterance just extracted from
\* names monday alone; the pair was combined and resolved, and extracting
\* from the same utterance again gives the same slots
C40_Witness ==
  /\ UtteranceOf(state) = {"monday"}
  /\ state.slots.date_slot = Some("monday")
  /\ state.slots.time_slot = Some("2pm")
  /\ IsSet(state.slots.datetime)
  /\ \A dp \in DateparserOutcomes :
        extract_datetime({"monday"}, state.slots, now_weekday, dp) = state.slots

=============================================================================
